---------------------------- MODULE Spec2Model ----------------------------
(***************************************************************************)
(* Market-basket mining pipeline of the digital-library analytics          *)
(* application: utils/pattern_mining.py (PatternMiner) and its callers in  *)
(* app.py.                                                                 *)
(*                                                                         *)
(* Numbers.  Supports, confidences, lifts and thresholds are exact         *)
(* rationals, written as normalised pairs <<numerator, denominator>>.      *)
(* Titles and user ids are small naturals; their order is the order of     *)
(* the strings they stand for (TransactionEncoder sorts the columns,       *)
(* groupby sorts the group keys).                                          *)
(***************************************************************************)
EXTENDS Integers, Sequences, FiniteSets, TLC

VARIABLES
    data,     \* the merged dataset handed to the miner: a frame of events
    miner,    \* the PatternMiner instance of the last call: its three fields
    stdout,   \* what the last call printed (the except branches print)
    call,     \* the last call made: its name and arguments
    ret,      \* the value the last call returned
    cache,          \* st.cache_data of generate_association_rules_cached
    session_state   \* st.session_state of every browser session

appvars == <<cache, session_state>>
vars == <<data, miner, stdout, call, ret, cache, session_state>>

---------------------------------------------------------------------------
(* Bounds of the model *)

\* Most distinct titles one user borrows in a dataset.
MaxBorrows == 3
\* Most borrow events of one user for the same title.
MaxRepeat == 2

Users == {1, 2, 3}
Titles == {1, 2, 3}

\* thresholds a caller passes, out-of-range values included
MinSupports == {<<0, 1>>, <<1, 3>>, <<1, 2>>, <<3, 2>>}
MinConfidences == {<<0, 1>>, <<1, 2>>, <<3, 2>>}
MinLifts == {<<1, 1>>, <<2, 1>>}
Methods == {"apriori", "fpgrowth"}
MinTransactions == {1, 2, 3}
TopNs == {1, 5}
MaxRules == {1, 20}

\* Python values that may be None carry their type
None == [type |-> "NoneType"]
PyList(items) == [type |-> "list", items |-> items]
DataFrame(rows) == [type |-> "DataFrame", rows |-> rows]

---------------------------------------------------------------------------
(* Exact rationals *)

RECURSIVE GCD(_, _)
GCD(a, b) == IF b = 0 THEN a ELSE GCD(b, a % b)

\* a/b for a >= 0, b > 0, in lowest terms
Frac(a, b) == LET g == GCD(a, b) IN <<a \div g, b \div g>>

Geq(x, y) == x[1] * y[2] >= y[1] * x[2]
Gt(x, y) == x[1] * y[2] > y[1] * x[2]
Leq(x, y) == Geq(y, x)
Lt(x, y) == Gt(y, x)

\* x / y for y > 0
Div(x, y) == Frac(x[1] * y[2], x[2] * y[1])

---------------------------------------------------------------------------
(* Sequences *)

Range(s) == {s[i] : i \in 1..Len(s)}

RECURSIVE SetToSortedSeq(_)
SetToSortedSeq(S) ==
    IF S = {} THEN <<>>
    ELSE LET m == CHOOSE x \in S : \A y \in S : x <= y
         IN <<m>> \o SetToSortedSeq(S \ {m})

RECURSIVE Flatten(_)
Flatten(ss) == IF ss = <<>> THEN <<>> ELSE Head(ss) \o Flatten(Tail(ss))

Take(s, n) == SubSeq(s, 1, IF n < Len(s) THEN n ELSE Len(s))

---------------------------------------------------------------------------
(* pandas helpers *)

\* sort_values(key, ascending=False) on a short frame: ties keep their order.
\* Insert x behind every row whose key is greater than or equal to its own.
\* keys are tuples of rationals, compared from the left
RECURSIVE KeyGeq(_, _)
KeyGeq(k1, k2) ==
    IF k1 = <<>> THEN TRUE
    ELSE IF Gt(Head(k1), Head(k2)) THEN TRUE
    ELSE IF Lt(Head(k1), Head(k2)) THEN FALSE
    ELSE KeyGeq(Tail(k1), Tail(k2))

RECURSIVE InsertDesc(_, _)
InsertDesc(sorted, x) ==
    IF sorted = <<>> THEN <<x>>
    ELSE IF KeyGeq(Head(sorted).key, x.key) THEN <<Head(sorted)>> \o InsertDesc(Tail(sorted), x)
    ELSE <<x>> \o sorted

RECURSIVE SortDescKeyed(_)
SortDescKeyed(s) ==
    IF s = <<>> THEN <<>>
    ELSE InsertDesc(SortDescKeyed(SubSeq(s, 1, Len(s) - 1)), s[Len(s)])

\* rows of s ordered by descending support, ties in their order in s
SortBySupportDesc(s) ==
    LET keyed == [i \in 1..Len(s) |-> [key |-> <<s[i].support>>, row |-> s[i]]]
        sorted == SortDescKeyed(keyed)
    IN [i \in 1..Len(sorted) |-> sorted[i].row]

\* rows of s ordered by descending lift, ties in their order in s
SortByLiftDesc(s) ==
    LET keyed == [i \in 1..Len(s) |-> [key |-> <<s[i].lift>>, row |-> s[i]]]
        sorted == SortDescKeyed(keyed)
    IN [i \in 1..Len(sorted) |-> sorted[i].row]

---------------------------------------------------------------------------
(* PatternMiner.__init__ *)

NewPatternMiner ==
    [frequent_itemsets |-> None, association_rules |-> None, transactions |-> None]

---------------------------------------------------------------------------
(* PatternMiner.prepare_transactions *)

borrow_rows(df) == SelectSeq(df.rows, LAMBDA e : e.action_type = "borrow")

\* grouping of consecutive events only, as itertools.groupby does: one row
\* per run of events of the same user
RECURSIVE groupby_user_runs(_)
groupby_user_runs(borrow_df) ==
    IF borrow_df = <<>> THEN <<>>
    ELSE LET u == Head(borrow_df).user_id
             n == CHOOSE k \in 1..Len(borrow_df) :
                      /\ \A i \in 1..k : borrow_df[i].user_id = u
                      /\ k < Len(borrow_df) => borrow_df[k + 1].user_id # u
         IN <<[user_id |-> u, books |-> [i \in 1..n |-> borrow_df[i].title]]>>
            \o groupby_user_runs(SubSeq(borrow_df, n + 1, Len(borrow_df)))

\* groupby('user_id')['title'].apply(list): one row per user id, ascending,
\* holding that user's titles in event order, repeats included
groupby_user_titles(borrow_df) ==
    LET keys == SetToSortedSeq({e.user_id : e \in Range(borrow_df)})
        books(u) == LET ev == SelectSeq(borrow_df, LAMBDA e : e.user_id = u)
                    IN [i \in 1..Len(ev) |-> ev[i].title]
    IN [i \in 1..Len(keys) |-> [user_id |-> keys[i], books |-> books(keys[i])]]

\* returns the miner after the call and the returned value
prepare_transactions(self, df, min_transactions_per_user) ==
    LET borrow_df == borrow_rows(df)
        user_books == groupby_user_titles(borrow_df)
        kept == SelectSeq(user_books, LAMBDA r : Len(r.books) >= min_transactions_per_user)
        transactions == PyList([i \in 1..Len(kept) |-> kept[i].books])
    IN IF Len(borrow_df) = 0 THEN [self |-> self, ret |-> None]
       ELSE IF Len(kept) = 0 THEN [self |-> self, ret |-> None]
       ELSE [self |-> [self EXCEPT !.transactions = transactions], ret |-> transactions]

---------------------------------------------------------------------------
(* PatternMiner.create_basket_matrix *)

\* TransactionEncoder: columns_ are the distinct items in sorted order, a row
\* holds TRUE in the columns of the items of its transaction
create_basket_matrix(transactions) ==
    IF transactions = None \/ transactions = PyList(<<>>) THEN None
    ELSE LET tx == transactions.items
             columns == SetToSortedSeq(UNION {Range(tx[i]) : i \in 1..Len(tx)})
         IN [type |-> "DataFrame",
             columns |-> columns,
             rows |-> [i \in 1..Len(tx) |->
                          [c \in 1..Len(columns) |-> columns[c] \in Range(tx[i])]]]

---------------------------------------------------------------------------
(* mlxtend.frequent_patterns.apriori, as find_frequent_itemsets calls it *)

ValueError == [type |-> "ValueError"]
KeyError == [type |-> "KeyError"]
IsException(v) == v.type \in {"ValueError", "KeyError"}

\* the count of the rows holding some column of cs
column_count_any(df_basket, cs) ==
    Cardinality({i \in 1..Len(df_basket.rows) : \E c \in cs : df_basket.rows[i][c]})

\* number of rows holding every column of the column set cs
column_count(df_basket, cs) ==
    Cardinality({i \in 1..Len(df_basket.rows) : \A c \in cs : df_basket.rows[i][c]})

column_support(df_basket, cs) == Frac(column_count(df_basket, cs), Len(df_basket.rows))

\* the support threshold as a strict one
exceeds_min_support(support, min_support_) == Gt(support, min_support_)

\* support >= min_support: the threshold is inclusive
meets_min_support(support, min_support_) == Geq(support, min_support_)

\* generate_new_combinations: every combination of the previous level is
\* extended by each greater item that occurs in some combination of that level
generate_new_combinations(old) ==
    LET valid == SetToSortedSeq(UNION {Range(old[i]) : i \in 1..Len(old)})
        ext(combo) == LET bigger == SelectSeq(valid, LAMBDA j : j > combo[Len(combo)])
                      IN [i \in 1..Len(bigger) |-> Append(combo, bigger[i])]
    IN Flatten([i \in 1..Len(old) |-> ext(old[i])])

RECURSIVE apriori_levels(_, _, _)
apriori_levels(df_basket, min_support_, level) ==
    LET combin == generate_new_combinations(level)
        next == SelectSeq(combin, LAMBDA c : meets_min_support(column_support(df_basket, Range(c)), min_support_))
    IN IF next = <<>> THEN level
       ELSE level \o apriori_levels(df_basket, min_support_, next)

apriori(df_basket, min_support_) ==
    IF Leq(min_support_, <<0, 1>>) THEN ValueError
    ELSE LET ncols == Len(df_basket.columns)
             singles == SelectSeq([c \in 1..ncols |-> <<c>>],
                                  LAMBDA c : meets_min_support(column_support(df_basket, Range(c)), min_support_))
             combos == IF singles = <<>> THEN <<>>
                       ELSE apriori_levels(df_basket, min_support_, singles)
         IN DataFrame([i \in 1..Len(combos) |->
                [support |-> column_support(df_basket, Range(combos[i])),
                 itemsets |-> {df_basket.columns[c] : c \in Range(combos[i])}]])

---------------------------------------------------------------------------
(* mlxtend.frequent_patterns.fpgrowth, as find_frequent_itemsets calls it *)

\* ceil(min_support * number of rows): the count an itemset must reach
fp_minsup(df_basket, min_support_) ==
    LET n == min_support_[1] * Len(df_basket.rows)
        d == min_support_[2]
    IN (n + d - 1) \div d

\* One step of the pattern growth over a conditional database: rows is a
\* sequence of column sets, items the ranked columns still to grow by (most
\* frequent last).  Every item frequent in rows yields suffix + item, then the
\* rows holding it are grown by the items ranked above it.
RECURSIVE fpg_step(_, _, _, _)
fpg_step(rows, items, suffix, minsup) ==
    LET count(c) == Cardinality({i \in 1..Len(rows) : c \in rows[i]})
        grow(k) ==
            LET item == items[k]
                cond == SelectSeq(rows, LAMBDA r : item \in r)
            IN IF count(item) < minsup THEN <<>>
               ELSE <<[count |-> count(item), cols |-> suffix \cup {item}]>>
                    \o fpg_step(cond, SubSeq(items, k + 1, Len(items)), suffix \cup {item}, minsup)
    IN Flatten([k \in 1..Len(items) |-> grow(k)])

\* columns ordered by ascending support count (argsort), ties by column index
RECURSIVE rank_columns(_, _)
rank_columns(df_basket, cols) ==
    IF cols = {} THEN <<>>
    ELSE LET m == CHOOSE c \in cols : \A d \in cols :
                      \/ column_count(df_basket, {c}) < column_count(df_basket, {d})
                      \/ column_count(df_basket, {c}) = column_count(df_basket, {d}) /\ c <= d
         IN <<m>> \o rank_columns(df_basket, cols \ {m})

fpgrowth(df_basket, min_support_) ==
    IF Leq(min_support_, <<0, 1>>) THEN ValueError
    ELSE LET ncols == Len(df_basket.columns)
             minsup == fp_minsup(df_basket, min_support_)
             frequent == {c \in 1..ncols : meets_min_support(column_support(df_basket, {c}), min_support_)}
             rows == [i \in 1..Len(df_basket.rows) |->
                         {c \in frequent : df_basket.rows[i][c]}]
             found == fpg_step(rows, rank_columns(df_basket, frequent), {}, minsup)
         IN DataFrame([i \in 1..Len(found) |->
                [support |-> Frac(found[i].count, Len(df_basket.rows)),
                 itemsets |-> {df_basket.columns[c] : c \in found[i].cols}]])

---------------------------------------------------------------------------
(* PatternMiner.find_frequent_itemsets *)

\* a stage that clears the stored collection when mining fails
store_frequent_itemsets_clearing(self, frequent_itemsets) ==
    IF IsException(frequent_itemsets)
    THEN [self |-> [self EXCEPT !.frequent_itemsets = None], ret |-> None,
          out |-> <<"Error finding frequent itemsets">>]
    ELSE IF Len(frequent_itemsets.rows) = 0
    THEN [self |-> self, ret |-> None, out |-> <<>>]
    ELSE LET sorted == DataFrame(SortBySupportDesc(frequent_itemsets.rows))
         IN [self |-> [self EXCEPT !.frequent_itemsets = sorted], ret |-> sorted, out |-> <<>>]

\* lines 69-76: the mined frame is sorted by support, stored and returned
store_frequent_itemsets(self, frequent_itemsets) ==
    IF IsException(frequent_itemsets)
    THEN [self |-> self, ret |-> None, out |-> <<"Error finding frequent itemsets">>]
    ELSE IF Len(frequent_itemsets.rows) = 0
    THEN [self |-> self, ret |-> None, out |-> <<>>]
    ELSE LET sorted == DataFrame(SortBySupportDesc(frequent_itemsets.rows))
         IN [self |-> [self EXCEPT !.frequent_itemsets = sorted], ret |-> sorted, out |-> <<>>]

\* returns the miner after the call, the returned value and what was printed
find_frequent_itemsets(self, df_basket, min_support_, method) ==
    IF df_basket = None \/ (df_basket # None /\ Len(df_basket.rows) = 0)
    THEN [self |-> self, ret |-> None, out |-> <<>>]
    ELSE store_frequent_itemsets(self, IF method = "fpgrowth"
                                       THEN fpgrowth(df_basket, min_support_)
                                       ELSE apriori(df_basket, min_support_))

---------------------------------------------------------------------------
(* mlxtend.frequent_patterns.association_rules, as generate_association_rules
   calls it: metric="confidence", min_threshold=min_confidence *)

\* itertools.combinations(s, r): the r-subsets of the sequence s, in its order
RECURSIVE combinations(_, _)
combinations(s, r) ==
    IF r = 0 THEN <<{}>>
    ELSE IF Len(s) < r THEN <<>>
    ELSE LET with == combinations(Tail(s), r - 1)
         IN [i \in 1..Len(with) |-> {Head(s)} \cup with[i]] \o combinations(Tail(s), r)

\* the antecedents of one itemset: its subsets of size len-1 down to 1
RECURSIVE antecedents_of(_, _)
antecedents_of(k, idx) ==
    IF idx = 0 THEN <<>>
    ELSE combinations(SetToSortedSeq(k), idx) \o antecedents_of(k, idx - 1)

\* the rule with the confidence of the opposite direction as its lift
rule_of_reverse_confidence(frequent, k, antecedent) ==
    LET consequent == k \ antecedent
        has(x) == \E i \in 1..Len(frequent) : frequent[i].itemsets = x
        sup(x) == frequent[CHOOSE i \in 1..Len(frequent) : frequent[i].itemsets = x].support
    IN IF ~has(antecedent) \/ ~has(consequent) THEN KeyError
       ELSE [type |-> "rule",
             antecedents |-> antecedent,
             consequents |-> consequent,
             antecedent_support |-> sup(antecedent),
             consequent_support |-> sup(consequent),
             support |-> sup(k),
             confidence |-> Div(sup(k), sup(antecedent)),
             lift |-> Div(sup(k), sup(consequent))]

\* the rule antecedent -> k minus antecedent with its metrics, or KeyError
\* when a side is not among the frequent itemsets
rule_of(frequent, k, antecedent) ==
    LET consequent == k \ antecedent
        has(x) == \E i \in 1..Len(frequent) : frequent[i].itemsets = x
        sup(x) == frequent[CHOOSE i \in 1..Len(frequent) : frequent[i].itemsets = x].support
    IN IF ~has(antecedent) \/ ~has(consequent) THEN KeyError
       ELSE [type |-> "rule",
             antecedents |-> antecedent,
             consequents |-> consequent,
             antecedent_support |-> sup(antecedent),
             consequent_support |-> sup(consequent),
             support |-> sup(k),
             confidence |-> Div(sup(k), sup(antecedent)),
             lift |-> Div(Div(sup(k), sup(antecedent)), sup(consequent))]

\* rule generation that, for every frequent itemset, also emits the rules of
\* the frequent itemsets it contains
association_rules_of_subsets(frequent_itemsets, min_threshold) ==
    LET frequent == frequent_itemsets.rows
        of_itemset(k) ==
            LET ants == antecedents_of(k, Cardinality(k) - 1)
            IN [j \in 1..Len(ants) |-> rule_of(frequent, k, ants[j])]
        of_subsets(k) ==
            Flatten([j \in 1..Len(frequent) |->
                        IF frequent[j].itemsets \subseteq k
                        THEN of_itemset(frequent[j].itemsets) ELSE <<>>])
        all == Flatten([i \in 1..Len(frequent) |-> of_subsets(frequent[i].itemsets)])
    IN IF \E i \in 1..Len(all) : IsException(all[i]) THEN KeyError
       ELSE DataFrame(SelectSeq(all, LAMBDA r : Geq(r.confidence, min_threshold)))

association_rules(frequent_itemsets, min_threshold) ==
    LET frequent == frequent_itemsets.rows
        of_itemset(k) ==
            LET ants == antecedents_of(k, Cardinality(k) - 1)
            IN [j \in 1..Len(ants) |-> rule_of(frequent, k, ants[j])]
        all == Flatten([i \in 1..Len(frequent) |-> of_itemset(frequent[i].itemsets)])
    IN IF \E i \in 1..Len(all) : IsException(all[i]) THEN KeyError
       ELSE DataFrame(SelectSeq(all, LAMBDA r : Geq(r.confidence, min_threshold)))

---------------------------------------------------------------------------
(* PatternMiner.generate_association_rules *)

\* pd.cut(lift, bins=[0, 1.2, 2.0, inf], labels=[Weak, Moderate, Strong],
\* include_lowest=True): the bins are closed on the right
rule_strength(lift) ==
    IF Leq(lift, <<6, 5>>) THEN "Weak"
    ELSE IF Leq(lift, <<2, 1>>) THEN "Moderate"
    ELSE "Strong"

with_rule_strength(rule) ==
    [type |-> "rule",
     antecedents |-> rule.antecedents,
     consequents |-> rule.consequents,
     antecedent_support |-> rule.antecedent_support,
     consequent_support |-> rule.consequent_support,
     support |-> rule.support,
     confidence |-> rule.confidence,
     lift |-> rule.lift,
     rule_strength |-> rule_strength(rule.lift)]

\* no lift filter at all
filter_no_lift(rules, min_lift_) == rules

\* the lift filter as a strict one
filter_above_lift(rules, min_lift_) == SelectSeq(rules, LAMBDA r : Gt(r.lift, min_lift_))

\* rules[rules['lift'] >= min_lift]
filter_by_lift(rules, min_lift_) == SelectSeq(rules, LAMBDA r : Geq(r.lift, min_lift_))

\* lines 116-128: the rules that passed the lift filter are sorted by lift,
\* labelled, stored and returned
store_rules(found, filtered) ==
    IF Len(filtered) = 0
    THEN [self |-> found.self, ret |-> DataFrame(<<>>), out |-> found.out]
    ELSE LET sorted == SortByLiftDesc(filtered)
             labelled == DataFrame([i \in 1..Len(sorted) |-> with_rule_strength(sorted[i])])
         IN [self |-> [found.self EXCEPT !.association_rules = labelled],
             ret |-> labelled, out |-> found.out]

\* lines 107-114 and the except branch for a failed rule generation
filter_rules(found, rules, min_lift_) ==
    IF IsException(rules)
    THEN [self |-> found.self, ret |-> DataFrame(<<>>),
          out |-> found.out \o <<"Error generating association rules">>]
    ELSE IF Len(rules.rows) = 0
    THEN [self |-> found.self, ret |-> DataFrame(<<>>), out |-> found.out]
    ELSE store_rules(found, filter_by_lift(rules.rows, min_lift_))

\* the stage without its guard: association_rules is handed whatever
\* find_frequent_itemsets gave and fails on None
rules_from_itemsets_unguarded(found, min_confidence_, min_lift_) ==
    filter_rules(found,
                 IF found.ret = None THEN ValueError
                 ELSE association_rules(found.ret, min_confidence_),
                 min_lift_)

\* lines 97-105: found is what find_frequent_itemsets gave
rules_from_itemsets(found, min_confidence_, min_lift_) ==
    IF found.ret = None \/ found.ret = DataFrame(<<>>)
    THEN [self |-> found.self, ret |-> DataFrame(<<>>), out |-> found.out]
    ELSE filter_rules(found, association_rules(found.ret, min_confidence_), min_lift_)

\* lines 92-96
rules_from_basket(self, df_basket, min_support_, min_confidence_, min_lift_, method) ==
    IF df_basket = None
    THEN [self |-> self, ret |-> DataFrame(<<>>), out |-> <<>>]
    ELSE rules_from_itemsets(find_frequent_itemsets(self, df_basket, min_support_, method),
                             min_confidence_, min_lift_)

\* lines 87-91: prepared is what prepare_transactions gave
rules_from_transactions(prepared, min_support_, min_confidence_, min_lift_, method) ==
    IF prepared.ret = None \/ prepared.ret = PyList(<<>>)
    THEN [self |-> prepared.self, ret |-> DataFrame(<<>>), out |-> <<>>]
    ELSE rules_from_basket(prepared.self, create_basket_matrix(prepared.ret),
                           min_support_, min_confidence_, min_lift_, method)

\* a miner that mines the transactions it already holds instead of the
\* dataset it is given
generate_association_rules_reusing(self, df, min_support_, min_confidence_, min_lift_, method) ==
    rules_from_transactions(IF self.transactions = None
                            THEN prepare_transactions(self, df, 2)
                            ELSE [self |-> self, ret |-> self.transactions],
                            min_support_, min_confidence_, min_lift_, method)

\* returns the miner after the call, the returned value and what was printed
generate_association_rules(self, df, min_support_, min_confidence_, min_lift_, method) ==
    rules_from_transactions(prepare_transactions(self, df, 2),
                            min_support_, min_confidence_, min_lift_, method)

---------------------------------------------------------------------------
(* PatternMiner.get_book_recommendations *)

\* the entries one rule adds for book_title, in the order of its consequents
recommendations_of(rule, book_title) ==
    IF book_title \notin rule.antecedents THEN <<>>
    ELSE LET cons == SelectSeq(SetToSortedSeq(rule.consequents), LAMBDA b : b # book_title)
         IN [i \in 1..Len(cons) |->
                [recommended_book |-> cons[i],
                 confidence |-> rule.confidence,
                 lift |-> rule.lift,
                 support |-> rule.support]]

\* sorted(recommendations, key=(lift, confidence), reverse=True)
sort_recommendations(recommendations) ==
    LET keyed == [i \in 1..Len(recommendations) |->
                     [key |-> <<recommendations[i].lift, recommendations[i].confidence>>,
                      row |-> recommendations[i]]]
        sorted == SortDescKeyed(keyed)
    IN [i \in 1..Len(sorted) |-> sorted[i].row]

\* a query that returns the whole ranking
get_book_recommendations_uncut(book_title, rules, top_n) ==
    IF rules = None \/ (rules # None /\ Len(rules.rows) = 0) THEN PyList(<<>>)
    ELSE LET recommendations ==
                 Flatten([i \in 1..Len(rules.rows) |-> recommendations_of(rules.rows[i], book_title)])
         IN PyList(sort_recommendations(recommendations))

get_book_recommendations(book_title, rules, top_n) ==
    IF rules = None \/ (rules # None /\ Len(rules.rows) = 0) THEN PyList(<<>>)
    ELSE LET recommendations ==
                 Flatten([i \in 1..Len(rules.rows) |-> recommendations_of(rules.rows[i], book_title)])
         IN PyList(Take(sort_recommendations(recommendations), top_n))

---------------------------------------------------------------------------
(* PatternMiner.create_network_visualization *)

\* G.add_edge(ant, con, weight, confidence, support) for every pair of the
\* rule: an edge that exists gets its attributes replaced
add_rule(G, rule) ==
    LET pairs == rule.antecedents \X rule.consequents
        attrs == [weight |-> rule.lift, confidence |-> rule.confidence, support |-> rule.support]
    IN [type |-> "DiGraph",
        nodes |-> G.nodes \cup rule.antecedents \cup rule.consequents,
        edges |-> [p \in DOMAIN G.edges \cup pairs |->
                      IF p \in pairs THEN attrs ELSE G.edges[p]]]

RECURSIVE add_rules(_, _)
add_rules(G, rules) ==
    IF rules = <<>> THEN G ELSE add_rules(add_rule(G, Head(rules)), Tail(rules))

\* a builder that renders every rule of the list
create_network_visualization_uncapped(rules, max_rules) ==
    IF rules = None \/ (rules # None /\ Len(rules.rows) = 0) THEN None
    ELSE add_rules([type |-> "DiGraph", nodes |-> {}, edges |-> <<>>], rules.rows)

\* the graph the returned html renders, None without rules
create_network_visualization(rules, max_rules) ==
    IF rules = None \/ (rules # None /\ Len(rules.rows) = 0) THEN None
    ELSE add_rules([type |-> "DiGraph", nodes |-> {}, edges |-> <<>>],
                   Take(rules.rows, max_rules))

---------------------------------------------------------------------------
(* PatternMiner.get_rules_summary and PatternMiner.analyze_book_relationships:
   queries on the rule list the miner stores *)

\* x + y
Plus(x, y) == Frac(x[1] * y[2] + y[1] * x[2], x[2] * y[2])

RECURSIVE Sum(_)
Sum(xs) == IF xs = <<>> THEN <<0, 1>> ELSE Plus(Head(xs), Sum(Tail(xs)))

\* Series.mean() of a column that is not empty
mean(xs) == Div(Sum(xs), <<Len(xs), 1>>)

\* lines 239-257; a stored rule list is never empty
get_rules_summary(self) ==
    IF self.association_rules = None THEN None
    ELSE LET rules == self.association_rules.rows
         IN [type |-> "dict",
             total_rules |-> Len(rules),
             avg_confidence |-> mean([i \in 1..Len(rules) |-> rules[i].confidence]),
             avg_lift |-> mean([i \in 1..Len(rules) |-> rules[i].lift]),
             avg_support |-> mean([i \in 1..Len(rules) |-> rules[i].support]),
             strong_rules |-> Len(SelectSeq(rules, LAMBDA r : Geq(r.lift, <<2, 1>>))),
             moderate_rules |-> Len(SelectSeq(rules, LAMBDA r : /\ Geq(r.lift, <<6, 5>>)
                                                                /\ Lt(r.lift, <<2, 1>>))),
             weak_rules |-> Len(SelectSeq(rules, LAMBDA r : Lt(r.lift, <<6, 5>>)))]

\* the entries a rule adds to a list of relationships: one per book of the
\* given side
relationship_entries(rule, books) ==
    LET bs == SetToSortedSeq(books)
    IN [i \in 1..Len(bs) |->
           [book |-> bs[i], confidence |-> rule.confidence, lift |-> rule.lift]]

\* lines 259-292
analyze_book_relationships(self, df, book_title) ==
    IF self.association_rules = None THEN None
    ELSE LET rules == self.association_rules.rows
         IN [type |-> "dict",
             appears_with |-> <<>>,
             leads_to |-> Flatten([i \in 1..Len(rules) |->
                              IF book_title \in rules[i].antecedents
                              THEN relationship_entries(rules[i], rules[i].consequents)
                              ELSE <<>>]),
             led_by |-> Flatten([i \in 1..Len(rules) |->
                            IF book_title \in rules[i].consequents
                            THEN relationship_entries(rules[i], rules[i].antecedents)
                            ELSE <<>>])]

---------------------------------------------------------------------------
(* app.py, display_association_rules: the rules table *)

\* a float rounded to three decimals, a tie going to the even digit
round3(x) ==
    LET k == (1000 * x[1]) \div x[2]
        rem == (1000 * x[1]) % x[2]
    IN Frac(IF 2 * rem > x[2] \/ (2 * rem = x[2] /\ k % 2 = 1) THEN k + 1 ELSE k, 1000)

\* the rows ordered by descending lift alone, ties in their order
sort_by_lift_only(s) == SortByLiftDesc(s)

\* sort_values(['lift', 'confidence'], ascending=[False, False])
sort_by_lift_confidence(s) ==
    LET keyed == [i \in 1..Len(s) |-> [key |-> <<s[i].lift, s[i].confidence>>, row |-> s[i]]]
        sorted == SortDescKeyed(keyed)
    IN [i \in 1..Len(sorted) |-> sorted[i].row]

\* lines 1015-1019 and 1045-1049: the borrow events of the titles of a rule side
get_borrow_count(df, items) ==
    Cardinality({i \in 1..Len(df.rows) :
                    df.rows[i].action_type = "borrow" /\ df.rows[i].title \in items})

\* lines 1060-1062
table_strength(lift) ==
    IF Geq(lift, <<3, 1>>) THEN "Very Strong"
    ELSE IF Geq(lift, <<2, 1>>) THEN "Strong"
    ELSE "Moderate"

\* lines 1037-1068: the table of a rule list that is not empty.  A row keeps
\* the index label of its rule, which sort_values carries along.
rules_table(df, rules_df) ==
    LET indexed == [i \in 1..Len(rules_df.rows) |->
                       [index |-> i,
                        lift |-> rules_df.rows[i].lift,
                        confidence |-> rules_df.rows[i].confidence]]
        display_rules == sort_by_lift_confidence(indexed)
        rule(i) == rules_df.rows[display_rules[i].index]
    IN DataFrame([i \in 1..Len(display_rules) |->
           [index |-> display_rules[i].index,
            antecedents |-> rule(i).antecedents,
            antecedent_borrows |-> get_borrow_count(df, rule(i).antecedents),
            consequents |-> rule(i).consequents,
            consequent_borrows |-> get_borrow_count(df, rule(i).consequents),
            support |-> round3(rule(i).support),
            confidence |-> round3(rule(i).confidence),
            lift |-> round3(rule(i).lift),
            strength |-> table_strength(round3(rule(i).lift))]])

---------------------------------------------------------------------------
(* app.py, display_book_search: the recommendations of the selected book *)

\* a float formatted with two decimals (f"{lift:.2f}")
round2(x) ==
    LET k == (100 * x[1]) \div x[2]
        rem == (100 * x[1]) % x[2]
    IN Frac(IF 2 * rem > x[2] \/ (2 * rem = x[2] /\ k % 2 = 1) THEN k + 1 ELSE k, 100)

\* sort_values('confidence', ascending=False)
sort_by_confidence(s) ==
    LET keyed == [i \in 1..Len(s) |-> [key |-> <<s[i].confidence>>, row |-> s[i]]]
        sorted == SortDescKeyed(keyed)
    IN [i \in 1..Len(sorted) |-> sorted[i].row]

\* lines 919-944: one row per consequent item of the relevant rules, the
\* confidence as a percentage with one decimal, sorted on it, the first ten
recommendations_table(df, relevant_rules) ==
    LET sorted == sort_by_confidence(relevant_rules)
        rows(rule) ==
            LET consequents == SetToSortedSeq(rule.consequents)
            IN [i \in 1..Len(consequents) |->
                   [Book |-> consequents[i],
                    confidence |-> round3(rule.confidence),
                    Lift |-> round2(rule.lift),
                    Popularity |-> get_borrow_count(df, {consequents[i]})]]
    IN DataFrame(Take(sort_by_confidence(Flatten([i \in 1..Len(sorted) |-> rows(sorted[i])])), 10))

\* lines 953-960: the other titles borrowed by the users who borrowed the
\* selected book, with the number of those borrow events (value_counts; its
\* head(5) holds all of them when there are at most five)
co_borrowed(df, selected_book) ==
    LET users_who_borrowed ==
            {r.user_id : r \in {x \in Range(df.rows) :
                                   x.title = selected_book /\ x.action_type = "borrow"}}
        events == SelectSeq(df.rows, LAMBDA r : /\ r.user_id \in users_who_borrowed
                                                /\ r.action_type = "borrow"
                                                /\ r.title # selected_book)
    IN [type |-> "Series",
        counts |-> [t \in {r.title : r \in Range(events)} |->
                       Cardinality({i \in 1..Len(events) : events[i].title = t})]]

\* lines 887-967 for a selected book that has borrow events: the miner of the
\* call, what the tab shows (a part not drawn is None) and its messages
display_book_search(df, selected_book, min_support_, min_confidence_, min_lift_) ==
    LET mined == generate_association_rules(NewPatternMiner, df, min_support_,
                                            min_confidence_, min_lift_, "apriori")
        all_rules == mined.ret
        relevant_rules == SelectSeq(all_rules.rows, LAMBDA r : selected_book \in r.antecedents)
    IN IF Len(all_rules.rows) = 0
       THEN [self |-> mined.self, out |-> mined.out,
             ret |-> [type |-> "tab", recommendations |-> None, co_borrowed |-> None,
                      messages |-> <<"No association rules found with current parameters">>]]
       ELSE IF Len(relevant_rules) = 0
       THEN [self |-> mined.self, out |-> mined.out,
             ret |-> [type |-> "tab", recommendations |-> None,
                      co_borrowed |-> co_borrowed(df, selected_book),
                      messages |-> <<"No direct associations found">>]]
       ELSE [self |-> mined.self, out |-> mined.out,
             ret |-> [type |-> "tab",
                      recommendations |-> recommendations_table(df, relevant_rules),
                      co_borrowed |-> None,
                      messages |-> <<>>]]

---------------------------------------------------------------------------
(* Datasets *)

\* the sequences of at most n titles
RECURSIVE Histories(_)
Histories(n) ==
    IF n = 0 THEN {<<>>}
    ELSE LET shorter == Histories(n - 1)
         IN shorter \cup
            {Append(h, t) : h \in {g \in shorter : Len(g) = n - 1}, t \in Titles}

\* the borrow history of one user, in title order: distinct titles, or one
\* title borrowed again and again
ValidHistory(h) ==
    \/ /\ Len(h) <= MaxBorrows
       /\ \A i \in 1..Len(h) - 1 : h[i] < h[i + 1]
    \/ /\ Len(h) <= MaxRepeat
       /\ \A i \in 1..Len(h) - 1 : h[i] = h[i + 1]

UserHistories ==
    {h \in Histories(IF MaxBorrows > MaxRepeat THEN MaxBorrows ELSE MaxRepeat) : ValidHistory(h)}

\* histories compared by length, then title by title
RECURSIVE HistoryLeq(_, _)
HistoryLeq(g, h) ==
    IF Len(g) # Len(h) THEN Len(g) < Len(h)
    ELSE IF g = <<>> THEN TRUE
    ELSE IF Head(g) # Head(h) THEN Head(g) < Head(h)
    ELSE HistoryLeq(Tail(g), Tail(h))

borrow_events(u, h) ==
    [i \in 1..Len(h) |-> [user_id |-> u, title |-> h[i], action_type |-> "borrow"]]

\* events of other action kinds a dataset may hold
OtherEvents == {<<>>, <<[user_id |-> 1, title |-> 1, action_type |-> "return"]>>}

\* Mining does not look at who holds which history: the users are numbered
\* in the order of their histories.
Datasets ==
    {DataFrame(o \o Flatten([u \in 1..Cardinality(Users) |-> borrow_events(u, hs[u])])) :
        o \in OtherEvents,
        hs \in {f \in [Users -> UserHistories] :
                   \A u \in Users : u + 1 \in Users => HistoryLeq(f[u], f[u + 1])}}

---------------------------------------------------------------------------
(* The state machine.  A dataset is loaded.  In each run of the script a
   caller constructs a PatternMiner and calls one mining method; the rule
   list a mining call returned is then handed to the queries. *)

NoCall == [op |-> "none"]

\* the browser sessions of the Streamlit process
Sessions == {1, 2}

\* main(), lines 423-426: a session starts without data
NewSessionState == [data_loaded |-> FALSE, merged_data |-> None]

\* the Streamlit process before any session loaded data
AppNotStarted ==
    /\ cache = <<>>
    /\ session_state = [s \in Sessions |-> NewSessionState]

Init ==
    /\ data \in Datasets
    /\ miner = NewPatternMiner
    /\ stdout = <<>>
    /\ call = NoCall
    /\ ret = None
    /\ AppNotStarted

\* a method call returned r (the miner, the value, the output) for the call c
Returned(r, c) ==
    /\ miner' = r.self
    /\ ret' = r.ret
    /\ stdout' = r.out
    /\ call' = c
    /\ UNCHANGED <<data, appvars>>

CallPrepareTransactions(k) ==
    /\ call = NoCall
    /\ Returned(prepare_transactions(NewPatternMiner, data, k) @@ [out |-> <<>>],
                [op |-> "prepare_transactions", min_transactions_per_user |-> k])

\* the basket matrix of a dataset: its transactions, encoded
basket_of(df) == create_basket_matrix(prepare_transactions(NewPatternMiner, df, 2).ret)

CallFindFrequentItemsets(ms, method) ==
    /\ call = NoCall
    /\ Returned(find_frequent_itemsets(prepare_transactions(NewPatternMiner, data, 2).self,
                                        basket_of(data), ms, method),
                [op |-> "find_frequent_itemsets", min_support |-> ms, method |-> method])

CallGenerateAssociationRules(ms, mc, ml) ==
    /\ call = NoCall
    /\ Returned(generate_association_rules(NewPatternMiner, data, ms, mc, ml, "apriori"),
                [op |-> "generate_association_rules", min_support |-> ms,
                 min_confidence |-> mc, min_lift |-> ml])

CallGetBookRecommendations(book_title, top_n) ==
    /\ call.op = "generate_association_rules"
    /\ ret' = get_book_recommendations(book_title, ret, top_n)
    /\ call' = [op |-> "get_book_recommendations", book_title |-> book_title,
                rules_df |-> ret, top_n |-> top_n]
    /\ stdout' = <<>>
    /\ UNCHANGED <<data, miner, appvars>>

CallCreateNetworkVisualization(max_rules) ==
    /\ call.op = "generate_association_rules"
    /\ ret' = create_network_visualization(ret, max_rules)
    /\ call' = [op |-> "create_network_visualization", rules_df |-> ret,
                max_rules |-> max_rules]
    /\ stdout' = <<>>
    /\ UNCHANGED <<data, miner, appvars>>

\* display_association_rules draws the table of the rules it was given; with
\* no rules it returns before the table (lines 1009-1012)
CallDisplayRulesTable ==
    /\ call.op = "generate_association_rules"
    /\ Len(ret.rows) > 0
    /\ ret' = rules_table(data, ret)
    /\ call' = [op |-> "display_association_rules", rules_df |-> ret]
    /\ stdout' = <<>>
    /\ UNCHANGED <<data, miner, appvars>>

\* the Book Search tab is drawn for a book chosen among the borrowed titles
CallDisplayBookSearch(selected_book, ms, mc, ml) ==
    /\ call = NoCall
    /\ \E i \in 1..Len(data.rows) :
           data.rows[i].title = selected_book /\ data.rows[i].action_type = "borrow"
    /\ Returned(display_book_search(data, selected_book, ms, mc, ml),
                [op |-> "display_book_search", selected_book |-> selected_book,
                 min_support |-> ms, min_confidence |-> mc, min_lift |-> ml])

\* the script runs again from the top on the same dataset
Rerun ==
    /\ call # NoCall
    /\ miner' = NewPatternMiner
    /\ stdout' = <<>>
    /\ call' = NoCall
    /\ ret' = None
    /\ UNCHANGED <<data, appvars>>

Next ==
    \/ \E k \in MinTransactions : CallPrepareTransactions(k)
    \/ \E ms \in MinSupports, method \in Methods : CallFindFrequentItemsets(ms, method)
    \/ \E ms \in MinSupports, mc \in MinConfidences, ml \in MinLifts :
           CallGenerateAssociationRules(ms, mc, ml)
    \/ \E book_title \in Titles, top_n \in TopNs : CallGetBookRecommendations(book_title, top_n)
    \/ \E max_rules \in MaxRules : CallCreateNetworkVisualization(max_rules)
    \/ CallDisplayRulesTable
    \/ \E selected_book \in Titles, ms \in MinSupports, mc \in MinConfidences, ml \in MinLifts :
           CallDisplayBookSearch(selected_book, ms, mc, ml)
    \/ Rerun

Spec == Init /\ [][Next]_vars

---------------------------------------------------------------------------
(* A long-lived PatternMiner: one instance serves call after call, on one
   dataset after another. *)

\* the borrow histories of the datasets such a miner is handed
MinerHistories ==
    {h \in UserHistories : h = <<>> \/ (Len(h) >= 2 /\ h[1] = 1 /\ h[2] <= 2)}

\* the thresholds of its callers
MinerSupports == {<<0, 1>>, <<1, 2>>}
MinerConfidences == {<<1, 2>>}

MinerDatasets ==
    {DataFrame(borrow_events(2, gh[1]) \o borrow_events(3, gh[2])) :
        gh \in {p \in MinerHistories \X MinerHistories : HistoryLeq(p[1], p[2])}}

MinerInit ==
    /\ data \in MinerDatasets
    /\ miner = NewPatternMiner
    /\ stdout = <<>>
    /\ call = NoCall
    /\ ret = None
    /\ AppNotStarted

\* the caller turns to another dataset
UseDataset(df) ==
    /\ df # data
    /\ data' = df
    /\ call' = NoCall
    /\ ret' = None
    /\ stdout' = <<>>
    /\ UNCHANGED <<miner, appvars>>

\* prepare_transactions, create_basket_matrix and find_frequent_itemsets on
\* the miner as the earlier calls left it
MinerFindFrequentItemsets(ms, method) ==
    Returned(find_frequent_itemsets(prepare_transactions(miner, data, 2).self,
                                    basket_of(data), ms, method),
             [op |-> "find_frequent_itemsets", min_support |-> ms, method |-> method])

\* generate_association_rules on the miner as the earlier calls left it
MinerGenerateAssociationRules(ms, mc, ml) ==
    Returned(generate_association_rules(miner, data, ms, mc, ml, "apriori"),
             [op |-> "generate_association_rules", min_support |-> ms,
              min_confidence |-> mc, min_lift |-> ml])

\* the queries on the miner, made after a call of generate_association_rules
\* with the rule list rules_df it returned
MinerGetRulesSummary ==
    /\ call.op = "generate_association_rules"
    /\ ret' = get_rules_summary(miner)
    /\ call' = [op |-> "get_rules_summary", rules_df |-> ret]
    /\ stdout' = <<>>
    /\ UNCHANGED <<data, miner, appvars>>

MinerAnalyzeBookRelationships(book_title) ==
    /\ call.op = "generate_association_rules"
    /\ ret' = analyze_book_relationships(miner, data, book_title)
    /\ call' = [op |-> "analyze_book_relationships", book_title |-> book_title,
                rules_df |-> ret]
    /\ stdout' = <<>>
    /\ UNCHANGED <<data, miner, appvars>>

MinerNext ==
    \/ \E df \in MinerDatasets : UseDataset(df)
    \/ \E ms \in MinerSupports : MinerFindFrequentItemsets(ms, "apriori")
    \/ \E ms \in MinerSupports, mc \in MinerConfidences, ml \in MinLifts :
           MinerGenerateAssociationRules(ms, mc, ml)
    \/ MinerGetRulesSummary
    \/ \E book_title \in {1, 2} : MinerAnalyzeBookRelationships(book_title)

SpecMiner == MinerInit /\ [][MinerNext]_vars

---------------------------------------------------------------------------
(* The event list in any order: the rows of the dataset are exchanged before
   a fresh PatternMiner is called. *)

\* most events of a dataset whose every order is explored
MaxShuffled == 5

ShuffleDatasets ==
    {DataFrame(o \o d.rows) : o \in OtherEvents,
                              d \in {m \in MinerDatasets : Len(m.rows) < MaxShuffled}}

ShuffleInit ==
    /\ data \in ShuffleDatasets
    /\ miner = NewPatternMiner
    /\ stdout = <<>>
    /\ call = NoCall
    /\ ret = None
    /\ AppNotStarted

\* the events i and i+1 of the input change places
Shuffle(i) ==
    /\ call = NoCall
    /\ i < Len(data.rows)
    /\ data.rows[i] # data.rows[i + 1]
    /\ data' = DataFrame([data.rows EXCEPT ![i] = data.rows[i + 1],
                                          ![i + 1] = data.rows[i]])
    /\ UNCHANGED <<miner, stdout, call, ret, appvars>>

ShuffleNext ==
    \/ \E i \in 1..MaxShuffled : Shuffle(i)
    \/ \E k \in MinTransactions : CallPrepareTransactions(k)
    \/ \E ms \in MinSupports, method \in Methods : CallFindFrequentItemsets(ms, method)
    \/ \E ms \in MinSupports, mc \in MinConfidences, ml \in MinLifts :
           CallGenerateAssociationRules(ms, mc, ml)
    \/ Rerun

SpecShuffle == ShuffleInit /\ [][ShuffleNext]_vars

---------------------------------------------------------------------------
(* The Streamlit application: every browser session loads its dataset once,
   its Association Rules tab mines through the process-wide st.cache_data. *)

\* the merged datasets the sessions upload
UploadedDatasets ==
    {d \in MinerDatasets : /\ basket_of(d) # None
                           /\ Len(basket_of(d).rows) = 2
                           /\ Len(basket_of(d).columns) = 3}

\* positions of the three sidebar sliders
SliderSupports == {<<1, 2>>}
SliderConfidences == {<<1, 2>>, <<1, 1>>}
SliderLifts == {<<1, 1>>, <<2, 1>>}

\* st.cache_data hashes the arguments of the call except those whose name
\* starts with an underscore
cache_key(_data, min_support_, min_confidence_, min_lift_) ==
    <<min_support_, min_confidence_, min_lift_>>

\* the cache after the call, the returned frame and what was printed
generate_association_rules_cached(store, _data, min_support_, min_confidence_, min_lift_) ==
    LET key == cache_key(_data, min_support_, min_confidence_, min_lift_)
        rules_df == generate_association_rules(NewPatternMiner, _data, min_support_,
                                               min_confidence_, min_lift_, "apriori")
    IN IF key \in DOMAIN store
       THEN [cache |-> store, ret |-> store[key], out |-> <<>>]
       ELSE [cache |-> store @@ (key :> rules_df.ret), ret |-> rules_df.ret,
             out |-> rules_df.out]

AppInit ==
    /\ data = None
    /\ miner = NewPatternMiner
    /\ stdout = <<>>
    /\ call = NoCall
    /\ ret = None
    /\ AppNotStarted

\* main(), lines 453-464: the session presses Load & Process Data
LoadAndProcessData(s, merged_data) ==
    /\ ~session_state[s].data_loaded
    /\ session_state' = [session_state EXCEPT
                            ![s] = [data_loaded |-> TRUE, merged_data |-> merged_data]]
    /\ UNCHANGED <<data, miner, stdout, call, ret, cache>>

\* the Association Rules tab of session s is drawn with the sliders at ms, mc, ml
DisplayAssociationRules(s, ms, mc, ml) ==
    /\ session_state[s].data_loaded
    /\ LET r == generate_association_rules_cached(cache, session_state[s].merged_data,
                                                  ms, mc, ml)
       IN /\ cache' = r.cache
          /\ ret' = r.ret
          /\ stdout' = r.out
    /\ data' = session_state[s].merged_data
    /\ call' = [op |-> "generate_association_rules_cached", session |-> s,
                min_support |-> ms, min_confidence |-> mc, min_lift |-> ml]
    /\ UNCHANGED <<miner, session_state>>

AppNext ==
    \/ \E s \in Sessions, d \in UploadedDatasets : LoadAndProcessData(s, d)
    \/ \E s \in Sessions, ms \in SliderSupports, mc \in SliderConfidences, ml \in SliderLifts :
           DisplayAssociationRules(s, ms, mc, ml)

SpecApp == AppInit /\ [][AppNext]_vars

---------------------------------------------------------------------------
(* The metrics as numpy computes them.  Supports, confidence and lift are
   float64 values.  rule_of above computes in exact fractions, which give the
   same values, equalities and comparisons as float64 for the matrices of up
   to four rows; from five rows on a quotient of two supports is rounded.
   Here the numbers are IEEE 754 binary64: a positive normal number is
   m * 2^e with 2^52 <= m < 2^53, m held in five limbs of 13 bits, the least
   significant first. *)

LimbBase == 2 ^ 13
LimbCount == 2 + 3

BigOfInt(k) == [i \in 1..LimbCount |-> IF i = 1 THEN k % LimbBase
                                       ELSE IF i = 2 THEN k \div LimbBase ELSE 0]

BigZero == BigOfInt(0)

\* 2^52 and 2^53
MantissaMin == [i \in 1..LimbCount |-> IF i = LimbCount THEN 1 ELSE 0]
MantissaEnd == [i \in 1..LimbCount |-> IF i = LimbCount THEN 2 ELSE 0]

RECURSIVE BigLtFrom(_, _, _)
BigLtFrom(x, y, i) ==
    IF i = 0 THEN FALSE
    ELSE IF x[i] # y[i] THEN x[i] < y[i]
    ELSE BigLtFrom(x, y, i - 1)

BigLt(x, y) == BigLtFrom(x, y, LimbCount)

\* 2x + carry, limb i upward
RECURSIVE BigDoubleFrom(_, _, _)
BigDoubleFrom(x, i, carry) ==
    IF i > LimbCount THEN <<>>
    ELSE <<(2 * x[i] + carry) % LimbBase>>
         \o BigDoubleFrom(x, i + 1, (2 * x[i] + carry) \div LimbBase)

BigDouble(x, bit) == BigDoubleFrom(x, 1, bit)

\* x - y for x >= y, limb i upward
RECURSIVE BigSubFrom(_, _, _, _)
BigSubFrom(x, y, i, borrow) ==
    IF i > LimbCount THEN <<>>
    ELSE <<(x[i] - y[i] - borrow + LimbBase) % LimbBase>>
         \o BigSubFrom(x, y, i + 1, IF x[i] - y[i] - borrow < 0 THEN 1 ELSE 0)

BigSub(x, y) == BigSubFrom(x, y, 1, 0)

BigHalf(x) ==
    [i \in 1..LimbCount |->
        (x[i] \div 2) + (IF i < LimbCount /\ x[i + 1] % 2 = 1 THEN LimbBase \div 2 ELSE 0)]

\* x + carry, limb i upward
RECURSIVE BigIncFrom(_, _, _)
BigIncFrom(x, i, carry) ==
    IF i > LimbCount THEN <<>>
    ELSE <<(x[i] + carry) % LimbBase>> \o BigIncFrom(x, i + 1, (x[i] + carry) \div LimbBase)

BigInc(x) == BigIncFrom(x, 1, 1)

\* m * 2^e with m brought into [2^52, 2^53)
RECURSIVE float64_normal(_, _)
float64_normal(m, e) ==
    IF BigLt(m, MantissaMin) THEN float64_normal(BigDouble(m, 0), e - 1)
    ELSE [m |-> m, e |-> e]

\* float(k) of a positive integer below 2^26
float64(k) == float64_normal(BigOfInt(k), 0)

\* one more bit of the quotient of the division by D: qr.q holds the bits so
\* far, qr.r the remainder
quotient_bit(qr, D) ==
    IF BigLt(BigDouble(qr.r, 0), D)
    THEN [q |-> BigDouble(qr.q, 0), r |-> BigDouble(qr.r, 0)]
    ELSE [q |-> BigDouble(qr.q, 1), r |-> BigSub(BigDouble(qr.r, 0), D)]

\* k more bits; the step is taken as the element of a singleton set, which
\* makes TLC compute it once before it goes on
RECURSIVE quotient_bits(_, _, _)
quotient_bits(qr, D, k) ==
    IF k = 0 THEN qr
    ELSE CHOOSE out \in {quotient_bits(next, D, k - 1) : next \in {quotient_bit(qr, D)}} : TRUE

\* round to nearest, ties to even: qr holds the 54 leading bits of the
\* quotient, the last of them the guard bit, and the remainder
round_half_even(qr, e) ==
    LET up == /\ qr.q[1] % 2 = 1
              /\ (qr.r # BigZero \/ BigHalf(qr.q)[1] % 2 = 1)
    IN IF ~up THEN [m |-> BigHalf(qr.q), e |-> e]
       ELSE IF BigInc(BigHalf(qr.q)) = MantissaEnd THEN [m |-> MantissaMin, e |-> e + 1]
       ELSE [m |-> BigInc(BigHalf(qr.q)), e |-> e]

\* x / y of two float64 numbers
float64_div(x, y) ==
    IF BigLt(x.m, y.m)
    THEN round_half_even(quotient_bits([q |-> BigZero, r |-> x.m], y.m, 54), x.e - y.e - 53)
    ELSE round_half_even(quotient_bits([q |-> BigOfInt(1), r |-> BigSub(x.m, y.m)], y.m, 53),
                         x.e - y.e - 52)

\* x >= y and x <= y of two float64 numbers
float64_ge(x, y) == IF x.e # y.e THEN x.e > y.e ELSE ~BigLt(x.m, y.m)
float64_le(x, y) == float64_ge(y, x)

\* the float64 nearest to the decimal literal p/q
float64_literal(p, q) == float64_div(float64(p), float64(q))

\* most rows of a basket matrix whose metrics are computed in float64
MaxRows == 8

\* a basket matrix over the items 1 and 2, by its counts: n rows, a of them
\* hold item 1, c hold item 2, ac hold both; item 1 is the rarer one
ItemsetCounts ==
    {[type |-> "counts", n |-> t[1], a |-> t[2], c |-> t[3], ac |-> t[4]] :
        t \in {u \in (1..MaxRows) \X (1..MaxRows) \X (1..MaxRows) \X (1..MaxRows) :
                  /\ u[4] <= u[2] /\ u[2] <= u[3]
                  /\ u[2] + u[3] - u[4] <= u[1]}}

\* thresholds of the callers, as the decimal literals p/q
Float64Confidences == {<<1, 10>>}
Float64Lifts == {<<1, 1>>, <<8, 5>>}

\* apriori: support = np.sum(X, axis=0) / number of rows
float64_support(count, n) == float64_div(float64(count), float64(n))

\* association_rules, metric_dict: confidence = sAC / sA and
\* lift = confidence / sC
confidence_metric(sAC, sA, sC) == float64_div(sAC, sA)
lift_metric(sAC, sA, sC) == float64_div(confidence_metric(sAC, sA, sC), sC)

float64_rule(antecedents, consequents, sAC, sA, sC) ==
    [type |-> "rule",
     antecedents |-> antecedents,
     consequents |-> consequents,
     antecedent_support |-> sA,
     consequent_support |-> sC,
     support |-> sAC,
     confidence |-> confidence_metric(sAC, sA, sC),
     lift |-> lift_metric(sAC, sA, sC)]

\* the rules of the itemset {1, 2}, in the order association_rules makes them
float64_both_rules(counts) ==
    <<float64_rule({1}, {2}, float64_support(counts.ac, counts.n),
                   float64_support(counts.a, counts.n), float64_support(counts.c, counts.n)),
      float64_rule({2}, {1}, float64_support(counts.ac, counts.n),
                   float64_support(counts.c, counts.n), float64_support(counts.a, counts.n))>>

\* pd.cut with the bins (0, 1.2], (1.2, 2.0], (2.0, inf)
float64_rule_strength(lift) ==
    IF float64_le(lift, float64_literal(12, 10)) THEN "Weak"
    ELSE IF float64_le(lift, float64(2)) THEN "Moderate"
    ELSE "Strong"

\* sort_values('lift', ascending=False) of at most two rules
float64_sort_by_lift(rules) ==
    IF Len(rules) = 2 /\ ~float64_ge(rules[1].lift, rules[2].lift)
    THEN <<rules[2], rules[1]>>
    ELSE rules

\* lines 101-125 on the rules of one itemset of two items
float64_rules(rules, min_confidence_, min_lift_) ==
    LET confident == SelectSeq(rules, LAMBDA r : float64_ge(r.confidence, min_confidence_))
        filtered == SelectSeq(confident, LAMBDA r : float64_ge(r.lift, min_lift_))
        sorted == float64_sort_by_lift(filtered)
    IN DataFrame([i \in 1..Len(sorted) |->
                     sorted[i] @@ [rule_strength |-> float64_rule_strength(sorted[i].lift)]])

Float64Init ==
    /\ data \in ItemsetCounts
    /\ miner = NewPatternMiner
    /\ stdout = <<>>
    /\ call = NoCall
    /\ ret = None
    /\ AppNotStarted

\* the rule stage of generate_association_rules on the frequent itemsets
\* {1}, {2} and {1, 2} of the matrix
CallAssociationRulesFloat64(mc, ml) ==
    /\ call = NoCall
    /\ ret' = float64_rules(float64_both_rules(data),
                            float64_literal(mc[1], mc[2]), float64_literal(ml[1], ml[2]))
    /\ call' = [op |-> "association_rules_float64", min_confidence |-> mc, min_lift |-> ml]
    /\ UNCHANGED <<data, miner, stdout, appvars>>

Float64Next ==
    \E mc \in Float64Confidences, ml \in Float64Lifts : CallAssociationRulesFloat64(mc, ml)

SpecFloat64 == Float64Init /\ [][Float64Next]_vars

---------------------------------------------------------------------------
(* The support thresholds as the two miners compute them.  apriori compares
   the float64 support count / rows with min_support; fpgrowth does so for the
   single items and compares the counts of the larger itemsets with
   math.ceil(min_support * rows). *)

\* x * k for a small positive integer k, limb i upward
RECURSIVE BigTimesFrom(_, _, _, _)
BigTimesFrom(x, k, i, carry) ==
    IF i > LimbCount THEN <<>>
    ELSE <<(x[i] * k + carry) % LimbBase>>
         \o BigTimesFrom(x, k, i + 1, (x[i] * k + carry) \div LimbBase)

BigTimes(x, k) == BigTimesFrom(x, k, 1, 0)

\* 2^54
GuardedEnd == [i \in 1..LimbCount |-> IF i = LimbCount THEN 4 ELSE 0]

\* p * 2^e brought below 2^54: the bits shifted out are remembered in r
RECURSIVE guarded(_, _)
guarded(qr, e) ==
    IF BigLt(qr.q, GuardedEnd) THEN [qr |-> qr, e |-> e]
    ELSE CHOOSE out \in {guarded(next, e + 1) :
                            next \in {[q |-> BigHalf(qr.q),
                                       r |-> IF qr.q[1] % 2 = 1 THEN BigOfInt(1) ELSE qr.r]}} : TRUE

\* x * float(k) of a float64 number and a positive integer below 2^11: the
\* exact product, rounded once
float64_times(x, k) ==
    LET exact == BigTimes(x.m, k)
        g == IF BigLt(exact, MantissaEnd)
             THEN [qr |-> [q |-> BigDouble(exact, 0), r |-> BigZero], e |-> x.e - 1]
             ELSE guarded([q |-> exact, r |-> BigZero], x.e)
    IN round_half_even(g.qr, g.e + 1)

\* math.ceil(x) for 0 < x <= rows + 1: the least integer not below x
ceil(x, rows) ==
    CHOOSE k \in 1..(rows + 1) :
        /\ float64_ge(float64(k), x)
        /\ \A j \in 1..(k - 1) : ~float64_ge(float64(j), x)

\* basket matrices over the items 1 and 2 by their counts, as ItemsetCounts,
\* with the numbers of rows at which a product min_support * rows is rounded
SupportCounts ==
    {[type |-> "counts", n |-> t[1], a |-> t[2], c |-> t[3], ac |-> t[4]] :
        t \in {u \in {10, 25} \X (6..10) \X (6..10) \X (5..8) :
                  /\ u[4] <= u[2] /\ u[2] <= u[3]
                  /\ u[2] + u[3] - u[4] <= u[1]}}

\* min_support of the callers, as the decimal literals p/q
Float64Supports == {<<28, 100>>, <<3, 10>>}

\* the row of an itemset found in count of the rows
float64_itemset(itemsets, count, counts) ==
    [support |-> float64_support(count, counts.n), itemsets |-> itemsets]

\* apriori: the single items with support >= min_support, then the pair of
\* two such items when its support is >= min_support
apriori_float64(counts, min_support_) ==
    LET singles == SelectSeq(<<float64_itemset({1}, counts.a, counts),
                               float64_itemset({2}, counts.c, counts)>>,
                             LAMBDA r : float64_ge(r.support, min_support_))
        pair == float64_itemset({1, 2}, counts.ac, counts)
    IN DataFrame(IF Len(singles) = 2 /\ float64_ge(pair.support, min_support_)
                 THEN Append(singles, pair) ELSE singles)

\* fpgrowth: setup_fptree keeps the items with support >= min_support.  When
\* no row holds the rarer item 1 without item 2 the tree is a path and every
\* combination of its items is generated; otherwise the conditional tree of
\* item 1 keeps item 2 when the count of the pair reaches
\* math.ceil(min_support * rows).
fpgrowth_float64(counts, min_support_) ==
    LET singles == SelectSeq(<<float64_itemset({1}, counts.a, counts),
                               float64_itemset({2}, counts.c, counts)>>,
                             LAMBDA r : float64_ge(r.support, min_support_))
        minsup == ceil(float64_times(min_support_, counts.n), counts.n)
        is_path == counts.a = counts.ac
        pair == float64_itemset({1, 2}, counts.ac, counts)
    IN DataFrame(IF Len(singles) = 2 /\ (is_path \/ counts.ac >= minsup)
                 THEN Append(singles, pair) ELSE singles)

\* sort_values('support', ascending=False)
RECURSIVE float64_insert_by_support(_, _)
float64_insert_by_support(sorted, x) ==
    IF sorted = <<>> THEN <<x>>
    ELSE IF float64_ge(Head(sorted).support, x.support)
    THEN <<Head(sorted)>> \o float64_insert_by_support(Tail(sorted), x)
    ELSE <<x>> \o sorted

RECURSIVE float64_sort_by_support(_)
float64_sort_by_support(rows) ==
    IF rows = <<>> THEN <<>>
    ELSE float64_insert_by_support(float64_sort_by_support(SubSeq(rows, 1, Len(rows) - 1)),
                                   rows[Len(rows)])

\* find_frequent_itemsets, lines 63-76, on a matrix given by its counts
find_frequent_itemsets_float64(counts, min_support_, method) ==
    LET frequent_itemsets == IF method = "fpgrowth" THEN fpgrowth_float64(counts, min_support_)
                             ELSE apriori_float64(counts, min_support_)
    IN IF Len(frequent_itemsets.rows) = 0 THEN None
       ELSE DataFrame(float64_sort_by_support(frequent_itemsets.rows))

SupportInit ==
    /\ data \in SupportCounts
    /\ miner = NewPatternMiner
    /\ stdout = <<>>
    /\ call = NoCall
    /\ ret = None
    /\ AppNotStarted

CallFindFrequentItemsetsFloat64(ms, method) ==
    /\ call = NoCall
    /\ ret' = find_frequent_itemsets_float64(data, float64_literal(ms[1], ms[2]), method)
    /\ call' = [op |-> "find_frequent_itemsets_float64", min_support |-> ms, method |-> method]
    /\ UNCHANGED <<data, miner, stdout, appvars>>

SupportNext ==
    \E ms \in Float64Supports, method \in Methods : CallFindFrequentItemsetsFloat64(ms, method)

SpecFloat64Support == SupportInit /\ [][SupportNext]_vars

---------------------------------------------------------------------------
(* The end-to-end scenario: five users whose borrow histories are the
   transactions {A,B}, {A,B,C}, {A,B}, {B,C}, {A,C}, the titles A, B, C being
   1, 2, 3.  The users hold the five histories in any order. *)

ScenarioUsers == 1..5

ScenarioTransactions == <<<<1, 2>>, <<1, 2, 3>>, <<1, 2>>, <<2, 3>>, <<1, 3>>>>

ScenarioDatasets ==
    {DataFrame(Flatten([u \in ScenarioUsers |-> borrow_events(u, ScenarioTransactions[p[u]])])) :
        p \in {f \in [ScenarioUsers -> ScenarioUsers] :
                  \A u, v \in ScenarioUsers : f[u] = f[v] => u = v}}

\* thresholds of the scenario and thresholds next to them
ScenarioSupports == {<<2, 5>>, <<1, 2>>}
ScenarioConfidences == {<<1, 2>>, <<4, 5>>}
ScenarioLifts == {<<9, 10>>, <<1, 1>>}

ScenarioInit ==
    /\ data \in ScenarioDatasets
    /\ miner = NewPatternMiner
    /\ stdout = <<>>
    /\ call = NoCall
    /\ ret = None
    /\ AppNotStarted

ScenarioNext ==
    \/ \E ms \in ScenarioSupports, method \in Methods : CallFindFrequentItemsets(ms, method)
    \/ \E ms \in ScenarioSupports, mc \in ScenarioConfidences, ml \in ScenarioLifts :
           CallGenerateAssociationRules(ms, mc, ml)
    \/ Rerun

SpecScenario == ScenarioInit /\ [][ScenarioNext]_vars

---------------------------------------------------------------------------
(* Ingestion, utils/preprocessing.py: DataPreprocessor.merge_data cleans the
   library records and the metadata and joins them on book_id; the merged
   frame is what the miner is handed.  The files hold the columns the miner
   reads (the optional rating, session and timestamp columns are absent). *)

\* the missing value of a numeric or title column; ids, titles and years are
\* positive
NaN == 0
\* the missing value of the action_type column
NoAction == "NaN"

\* datetime.now().year
current_year == 2026

\* rows of the uploaded library file
LibraryRecords ==
    [user_id : {NaN, 1}, book_id : {NaN, 1, 2}, action_type : {NoAction, "borrow"}]

LibraryFiles ==
    {<<>>} \cup {<<r>> : r \in LibraryRecords}
           \cup {<<r1, r2>> : r1 \in LibraryRecords, r2 \in LibraryRecords}
           \cup {<<r1, r2, r3>> : r1 \in {r \in LibraryRecords : r.book_id = 1 /\ r.user_id = 1},
                                  r2 \in LibraryRecords,
                                  r3 \in {r \in LibraryRecords : r.user_id = 1}}

\* rows of the uploaded metadata file
MetadataRecords == [book_id : {NaN, 1, 2}, title : {1, 2}, year : {1899, 2000}]

MetadataFiles ==
    {<<>>} \cup {<<m>> : m \in MetadataRecords}
           \cup {<<m1, m2>> : m1 \in {m \in MetadataRecords : m.book_id = 1 /\ m.title = 1},
                              m2 \in {m \in MetadataRecords : m.book_id > 1 /\ m.title = 2}}

\* dropna(subset=['user_id', 'book_id', 'action_type'])
clean_library_data(df) ==
    SelectSeq(df, LAMBDA r : r.user_id # NaN /\ r.book_id # NaN /\ r.action_type # NoAction)

\* dropna(subset=['book_id']), then the rows whose year is missing or within
\* 1900..current_year
clean_metadata(df) ==
    SelectSeq(SelectSeq(df, LAMBDA m : m.book_id # NaN),
              LAMBDA m : m.year = NaN \/ (m.year >= 1900 /\ m.year <= current_year))

\* library_clean.merge(metadata_clean, on='book_id', how='left'): a library
\* row is joined with every metadata row of its book_id, in order, and is
\* kept with missing metadata columns when there is none
left_merge(library_clean, metadata_clean) ==
    LET joined(r) ==
            LET matches == SelectSeq(metadata_clean, LAMBDA m : m.book_id = r.book_id)
            IN IF matches = <<>>
               THEN <<[user_id |-> r.user_id, book_id |-> r.book_id,
                       action_type |-> r.action_type, title |-> NaN, year |-> NaN]>>
               ELSE [i \in 1..Len(matches) |->
                        [user_id |-> r.user_id, book_id |-> r.book_id,
                         action_type |-> r.action_type,
                         title |-> matches[i].title, year |-> matches[i].year]]
    IN Flatten([i \in 1..Len(library_clean) |-> joined(library_clean[i])])

\* the merged frame and what was printed
merge_data(library_df, metadata_df) ==
    LET merged == left_merge(clean_library_data(library_df), clean_metadata(metadata_df))
        missing_metadata == {r.book_id : r \in {x \in Range(merged) : x.title = NaN}}
    IN [ret |-> DataFrame(merged),
        out |-> <<"Library dataset", "Metadata", "Merge completed">>
                \o (IF missing_metadata # {}
                    THEN <<"Warning: books in library dataset not found in metadata">>
                    ELSE <<>>)]

IngestInit ==
    /\ data = None
    /\ miner = NewPatternMiner
    /\ stdout = <<>>
    /\ call = NoCall
    /\ ret = None
    /\ AppNotStarted

\* load_and_process_data: the two uploaded files are merged
MergeData(library_df, metadata_df) ==
    /\ data = None
    /\ LET r == merge_data(library_df, metadata_df)
       IN /\ data' = r.ret
          /\ ret' = r.ret
          /\ stdout' = r.out
    /\ call' = [op |-> "merge_data"]
    /\ UNCHANGED <<miner, appvars>>

\* the merged frame is handed to the Transaction Builder of a new miner
PrepareMergedData(k) ==
    /\ call.op = "merge_data"
    /\ Returned(prepare_transactions(NewPatternMiner, data, k) @@ [out |-> <<>>],
                [op |-> "prepare_transactions", min_transactions_per_user |-> k])

IngestNext ==
    \/ \E library_df \in LibraryFiles, metadata_df \in MetadataFiles :
           MergeData(library_df, metadata_df)
    \/ \E k \in MinTransactions : PrepareMergedData(k)

SpecIngest == IngestInit /\ [][IngestNext]_vars

---------------------------------------------------------------------------
(* What the claims speak of, counted directly on the basket matrix *)

Itemsets == (SUBSET Titles) \ {{}}

Zero == <<0, 1>>
One == <<1, 1>>

\* the rows of the matrix holding every item of S
RowsHolding(df_basket, S) ==
    {i \in 1..Len(df_basket.rows) :
        \A t \in S : \E c \in 1..Len(df_basket.columns) :
            df_basket.columns[c] = t /\ df_basket.rows[i][c]}

\* support of S: the share of rows holding every item of S
Support(df_basket, S) ==
    Frac(Cardinality(RowsHolding(df_basket, S)), Len(df_basket.rows))

\* the (itemset, support) pairs with support >= ms
FrequentPairs(df_basket, ms) ==
    {<<S, Support(df_basket, S)>> : S \in {T \in Itemsets : Geq(Support(df_basket, T), ms)}}

\* the (itemset, support) pairs of a returned collection; None holds none
PairsOf(frame) ==
    IF frame = None THEN {}
    ELSE {<<frame.rows[i].itemsets, frame.rows[i].support>> : i \in 1..Len(frame.rows)}

RowCount(frame) == IF frame = None THEN 0 ELSE Len(frame.rows)

AfterFind == call.op = "find_frequent_itemsets"
AfterPrepare == call.op = "prepare_transactions"
AfterGenerate == call.op = "generate_association_rules"
AfterRecommend == call.op = "get_book_recommendations"
AfterNetwork == call.op = "create_network_visualization"

---------------------------------------------------------------------------
(* C1 *)

---------------------------------------------------------------------------
(* C2 *)

\* confidence and lift of the split A -> C, from the supports in the matrix
Confidence(df_basket, A, C) == Div(Support(df_basket, A \cup C), Support(df_basket, A))
Lift(df_basket, A, C) == Div(Confidence(df_basket, A, C), Support(df_basket, C))

HasRule(rules, A, C) ==
    \E i \in 1..Len(rules.rows) :
        rules.rows[i].antecedents = A /\ rules.rows[i].consequents = C

\* the splits of the itemset k into a non-empty proper subset and the rest
Splits(k) == {A \in SUBSET k : A # {} /\ A # k}

\* the itemsets of size >= 2 of the Frequent Itemset Collection of the run
LargeItemsets(frame) ==
    IF frame = None THEN {}
    ELSE {frame.rows[i].itemsets : i \in {j \in 1..Len(frame.rows) :
                                             Cardinality(frame.rows[j].itemsets) >= 2}}

\* C2: for every frequent itemset of size N >= 2 of the run and every one of
\* its 2^N - 2 splits A -> C, generate_association_rules returns the rule
\* A -> C whenever its confidence is >= min_confidence and its lift is
\* >= min_lift.
C2_QualifyingSplitsReturned ==
    AfterGenerate =>
        \A k \in LargeItemsets(miner.frequent_itemsets) :
            \A A \in Splits(k) :
                (/\ Geq(Confidence(basket_of(data), A, k \ A), call.min_confidence)
                 /\ Geq(Lift(basket_of(data), A, k \ A), call.min_lift))
                    => HasRule(ret, A, k \ A)

\* a run with a frequent itemset of three items in which a rule sits exactly
\* on the lift threshold, a split of the three items is returned and another
\* split of them is filtered out
C2_Witness ==
    /\ AfterGenerate
    /\ \E k \in LargeItemsets(miner.frequent_itemsets) :
           /\ Cardinality(k) = 3
           /\ Cardinality(Splits(k)) = 6
           /\ \E A \in Splits(k) : HasRule(ret, A, k \ A)
           /\ \E A \in Splits(k) : ~HasRule(ret, A, k \ A)
    /\ \E i \in 1..Len(ret.rows) : ret.rows[i].lift = call.min_lift

---------------------------------------------------------------------------
(* C3, C4 *)

\* C3: in every transaction returned by prepare_transactions each title
\* occurs at most once.
C3_TitleOncePerTransaction ==
    (AfterPrepare /\ ret # None) =>
        \A i \in 1..Len(ret.items) :
            \A j, k \in 1..Len(ret.items[i]) :
                ret.items[i][j] = ret.items[i][k] => j = k

\* the users whose borrow events cover at least k distinct titles
UsersWithDistinct(df, k) ==
    {u \in Users :
        Cardinality({e.title : e \in {x \in Range(df.rows) :
            x.user_id = u /\ x.action_type = "borrow"}}) >= k}

\* C4: every transaction retained by prepare_transactions has at least
\* min_transactions_per_user distinct items, and only the users with that
\* many distinct titles contribute a transaction.
C4_MinDistinctItems ==
    AfterPrepare =>
        IF ret = None THEN UsersWithDistinct(data, call.min_transactions_per_user) = {}
        ELSE /\ \A i \in 1..Len(ret.items) :
                    Cardinality(Range(ret.items[i])) >= call.min_transactions_per_user
             /\ Len(ret.items) =
                    Cardinality(UsersWithDistinct(data, call.min_transactions_per_user))

---------------------------------------------------------------------------
(* C5 *)

\* the label of the half-open bins [0, 1.2), [1.2, 2.0), [2.0, inf)
LowerInclusiveLabel(lift) ==
    IF Lt(lift, <<6, 5>>) THEN "Weak"
    ELSE IF Lt(lift, <<2, 1>>) THEN "Moderate"
    ELSE "Strong"

\* C5: every returned rule carries the strength label of the
\* lower-bound-inclusive bins: lift < 1.2 weak, 1.2 <= lift < 2.0 moderate,
\* lift >= 2.0 strong.
C5_LowerInclusiveBins ==
    AfterGenerate =>
        \A i \in 1..Len(ret.rows) :
            ret.rows[i].rule_strength = LowerInclusiveLabel(ret.rows[i].lift)

---------------------------------------------------------------------------
(* C6, C7 *)

\* C6: the list get_book_recommendations returns holds each consequent item
\* at most once.
C6_ConsequentOnce ==
    AfterRecommend =>
        \A i, j \in 1..Len(ret.items) :
            ret.items[i].recommended_book = ret.items[j].recommended_book => i = j

\* C7: the list get_book_recommendations returns is ordered by descending
\* confidence: of two entries for different consequents, the one with the
\* higher confidence comes first, whatever the lifts are.
C7_ConfidenceDescending ==
    AfterRecommend =>
        \A i, j \in 1..Len(ret.items) :
            (i < j /\ ret.items[i].recommended_book # ret.items[j].recommended_book)
                => Geq(ret.items[i].confidence, ret.items[j].confidence)

---------------------------------------------------------------------------
(* C8 *)

\* the rules create_network_visualization renders
RenderedRules == Take(call.rules_df.rows, call.max_rules)

Produces(rule, pair) == pair[1] \in rule.antecedents /\ pair[2] \in rule.consequents

\* the rendered rules producing the pair whose lift no other such rule exceeds
BestRules(pair) ==
    {i \in 1..Len(RenderedRules) :
        /\ Produces(RenderedRules[i], pair)
        /\ \A j \in 1..Len(RenderedRules) :
               Produces(RenderedRules[j], pair) => Geq(RenderedRules[i].lift, RenderedRules[j].lift)}

\* C8: every edge of the graph create_network_visualization builds carries
\* the weight, confidence and support of a rule with the highest lift among
\* the rendered rules producing that directed pair.
C8_EdgeKeepsHighestLift ==
    (AfterNetwork /\ ret # None) =>
        \A pair \in DOMAIN ret.edges :
            \E i \in BestRules(pair) :
                /\ ret.edges[pair].weight = RenderedRules[i].lift
                /\ ret.edges[pair].confidence = RenderedRules[i].confidence
                /\ ret.edges[pair].support = RenderedRules[i].support

---------------------------------------------------------------------------
(* C9 *)

InvalidMinSupport(ms) == Leq(ms, Zero) \/ Gt(ms, One)
InvalidMinConfidence(mc) == Leq(mc, Zero) \/ Gt(mc, One)

\* C9: find_frequent_itemsets and generate_association_rules reject a
\* min_support <= 0 or > 1 and a min_confidence outside (0, 1] with an error
\* outcome, never with the value an empty valid run returns nor with a
\* result.
C9_InvalidThresholdsRejected ==
    /\ (AfterFind /\ InvalidMinSupport(call.min_support)) => IsException(ret)
    /\ (AfterGenerate /\ (\/ InvalidMinSupport(call.min_support)
                          \/ InvalidMinConfidence(call.min_confidence)))
           => IsException(ret)

---------------------------------------------------------------------------
(* C10 *)

BorrowEvents(df) == {i \in 1..Len(df.rows) : df.rows[i].action_type = "borrow"}

\* no user has the two borrow events a retained transaction needs
NoRetainedTransaction(df) ==
    \A u \in Users : Cardinality({i \in BorrowEvents(df) : df.rows[i].user_id = u}) < 2

\* no itemset of at least n items has a support >= ms
NoFrequentItemsetOfSize(df, ms, n) ==
    /\ ~NoRetainedTransaction(df)
    /\ \A S \in Itemsets : Cardinality(S) >= n => Lt(Support(basket_of(df), S), ms)

EmptinessCase ==
    \/ Len(data.rows) = 0
    \/ BorrowEvents(data) = {}
    \/ NoRetainedTransaction(data)
    \/ NoFrequentItemsetOfSize(data, call.min_support, 1)
    \/ NoFrequentItemsetOfSize(data, call.min_support, 2)

\* C10: for a dataset with zero events, zero borrow events, no retained
\* transaction, a min_support that excludes every itemset, or no frequent
\* itemset of size >= 2, generate_association_rules returns the empty rule
\* list and no stage raises an exception.
C10_EmptinessPropagates ==
    (AfterGenerate /\ EmptinessCase) => (ret = DataFrame(<<>>) /\ stdout = <<>>)

\* a run on retained transactions in which single items are frequent and no
\* larger itemset is
C10_Witness ==
    /\ AfterGenerate
    /\ NoFrequentItemsetOfSize(data, call.min_support, 2)
    /\ ~NoFrequentItemsetOfSize(data, call.min_support, 1)
    /\ RowCount(miner.frequent_itemsets) > 0
    /\ ret = DataFrame(<<>>)

---------------------------------------------------------------------------
(* C11 *)

\* C11: prepare_transactions returns the empty list when no event has the
\* borrow action kind and when no user reaches the minimum item count.
C11_EmptyListWhenNothingRetained ==
    (AfterPrepare /\ \A u \in Users :
         Cardinality({i \in BorrowEvents(data) : data.rows[i].user_id = u})
             < call.min_transactions_per_user)
        => ret = PyList(<<>>)

---------------------------------------------------------------------------
(* C14 *)

\* C14: support is anti-monotone, and the collection find_frequent_itemsets
\* returns is downward closed: every non-empty subset of a returned itemset
\* is returned too, with a support at least as large.
C14_DownwardClosed ==
    (AfterFind /\ basket_of(data) # None) =>
        /\ \A S2 \in Itemsets : \A S1 \in (SUBSET S2) \ {{}, S2} :
               Leq(Support(basket_of(data), S2), Support(basket_of(data), S1))
        /\ \A p \in PairsOf(ret) : \A S1 \in (SUBSET p[1]) \ {{}} :
               \E q \in PairsOf(ret) : q[1] = S1 /\ Geq(q[2], p[2])

\* a returned collection with an itemset of three items and a subset of it
\* whose support is strictly larger
C14_Witness ==
    /\ AfterFind
    /\ \E p, q \in PairsOf(ret) :
           /\ Cardinality(p[1]) = 3
           /\ q[1] \subseteq p[1] /\ q[1] # p[1]
           /\ Gt(q[2], p[2])

---------------------------------------------------------------------------
(* C15 *)

\* C15: every rule generate_association_rules returns has 0 < confidence <=
\* 1, lift > 0, confidence >= min_confidence and lift >= min_lift.
C15_RuleMetricsInRange ==
    AfterGenerate =>
        \A i \in 1..Len(ret.rows) :
            /\ Gt(ret.rows[i].confidence, Zero)
            /\ Leq(ret.rows[i].confidence, One)
            /\ Gt(ret.rows[i].lift, Zero)
            /\ Geq(ret.rows[i].confidence, call.min_confidence)
            /\ Geq(ret.rows[i].lift, call.min_lift)

\* a run that returned a rule although rules of the same frequent itemsets
\* fell below the confidence threshold and below the lift threshold
C15_Witness ==
    /\ AfterGenerate
    /\ Len(ret.rows) > 0
    /\ \E k \in LargeItemsets(miner.frequent_itemsets) : \E A \in Splits(k) :
           Lt(Confidence(basket_of(data), A, k \ A), call.min_confidence)
    /\ \E k \in LargeItemsets(miner.frequent_itemsets) : \E A \in Splits(k) :
           /\ Geq(Confidence(basket_of(data), A, k \ A), call.min_confidence)
           /\ Lt(Lift(basket_of(data), A, k \ A), call.min_lift)

---------------------------------------------------------------------------
(* C16 *)

\* C16: every returned rule has a non-empty antecedent and a non-empty
\* consequent that are disjoint and whose union is an itemset of the
\* Frequent Itemset Collection; its support is the support of the union, its
\* confidence support(union)/support(antecedent) and its lift
\* confidence/support(consequent).
C16_RuleShape ==
    AfterGenerate =>
        \A i \in 1..Len(ret.rows) :
            LET A == ret.rows[i].antecedents
                C == ret.rows[i].consequents
            IN /\ A # {} /\ C # {} /\ A \cap C = {}
               /\ A \cup C \in LargeItemsets(miner.frequent_itemsets)
               /\ ret.rows[i].support = Support(basket_of(data), A \cup C)
               /\ ret.rows[i].confidence = Confidence(basket_of(data), A, C)
               /\ ret.rows[i].lift = Lift(basket_of(data), A, C)

\* a returned rule whose lift differs from the confidence of the opposite
\* direction and from its own confidence
C16_Witness ==
    /\ AfterGenerate
    /\ \E i \in 1..Len(ret.rows) :
           /\ ret.rows[i].lift # ret.rows[i].confidence
           /\ ret.rows[i].lift #
                  Confidence(basket_of(data), ret.rows[i].consequents, ret.rows[i].antecedents)
           /\ Cardinality(ret.rows[i].antecedents) = 2

---------------------------------------------------------------------------
(* C17 *)

\* C17: the rule list generate_association_rules returns holds each
\* (antecedent, consequent) pair at most once.
C17_RulePairOnce ==
    AfterGenerate =>
        \A i, j \in 1..Len(ret.rows) :
            (/\ ret.rows[i].antecedents = ret.rows[j].antecedents
             /\ ret.rows[i].consequents = ret.rows[j].consequents) => i = j

\* rules returned from frequent itemsets of two sizes that share items
C17_Witness ==
    /\ AfterGenerate
    /\ \E i, j \in 1..Len(ret.rows) :
           /\ Cardinality(ret.rows[i].antecedents \cup ret.rows[i].consequents) = 2
           /\ Cardinality(ret.rows[j].antecedents \cup ret.rows[j].consequents) = 3
           /\ ret.rows[i].antecedents \subseteq ret.rows[j].antecedents
           /\ ret.rows[i].consequents \subseteq ret.rows[j].consequents

---------------------------------------------------------------------------
(* C13 *)

\* the call that has just returned printed the message of an except branch
Printed(out, message) == \E i \in 1..Len(out) : out[i] = message

\* C13: a mining stage that ends in an error leaves the collections the
\* PatternMiner holds as they were before the stage started: a failed
\* find_frequent_itemsets leaves frequent_itemsets and association_rules
\* untouched, inside generate_association_rules too, and a failed rule
\* generation leaves association_rules untouched.
C13_AllOrNothing ==
    [][/\ Printed(stdout', "Error finding frequent itemsets") =>
              /\ miner'.frequent_itemsets = miner.frequent_itemsets
              /\ miner'.association_rules = miner.association_rules
       /\ Printed(stdout', "Error generating association rules") =>
              miner'.association_rules = miner.association_rules]_vars

\* a failed find_frequent_itemsets on a miner that holds a collection and a
\* rule list from earlier calls
C13_Witness ==
    /\ AfterFind
    /\ Printed(stdout, "Error finding frequent itemsets")
    /\ ret = None
    /\ miner.frequent_itemsets # None
    /\ miner.association_rules # None

---------------------------------------------------------------------------
(* C19 *)

\* C19: generate_association_rules returns, on a miner that has served any
\* earlier calls, the rule list a fresh PatternMiner returns for the same
\* dataset and thresholds, the same rules in the same order with the same
\* values, and leaves the dataset as it was.
C19_DependsOnArgumentsOnly ==
    [][call'.op = "generate_association_rules" =>
           /\ ret' = generate_association_rules(NewPatternMiner, data, call'.min_support,
                                                call'.min_confidence, call'.min_lift,
                                                "apriori").ret
           /\ data' = data]_vars

\* a call on a miner that holds transactions and rules of another dataset
C19_Witness ==
    /\ AfterGenerate
    /\ Len(ret.rows) > 0
    /\ \E df \in MinerDatasets :
           /\ df # data
           /\ prepare_transactions(NewPatternMiner, df, 2).ret # None
           /\ miner = generate_association_rules(
                          prepare_transactions(NewPatternMiner, df, 2).self, data,
                          call.min_support, call.min_confidence, call.min_lift, "apriori").self

---------------------------------------------------------------------------
(* C20 *)

EventLeq(e, f) ==
    IF e.user_id # f.user_id THEN e.user_id < f.user_id
    ELSE IF e.title # f.title THEN e.title < f.title
    ELSE e.action_type = f.action_type \/ e.action_type = "borrow"

\* the events of a dataset in one fixed order, whatever order they came in
RECURSIVE OrderedEvents(_)
OrderedEvents(rows) ==
    IF rows = <<>> THEN <<>>
    ELSE LET m == CHOOSE i \in 1..Len(rows) : \A j \in 1..Len(rows) : EventLeq(rows[i], rows[j])
         IN <<rows[m]>> \o OrderedEvents([k \in 1..Len(rows) - 1 |->
                                              IF k < m THEN rows[k] ELSE rows[k + 1]])

Ordered(df) == DataFrame(OrderedEvents(df.rows))

\* the transactions as an unordered collection of item sets: how often each
\* item set occurs
ItemSetsOf(transactions) ==
    IF transactions = None THEN <<>>
    ELSE [S \in {Range(transactions.items[i]) : i \in 1..Len(transactions.items)} |->
             Cardinality({i \in 1..Len(transactions.items) : Range(transactions.items[i]) = S})]

\* C20: for the events in any order prepare_transactions yields the same
\* collection of per-user item sets, find_frequent_itemsets the same set of
\* (itemset, support) pairs and generate_association_rules the same rule
\* list as for the events in one fixed order.
C20_OrderOfEventsIrrelevant ==
    /\ AfterPrepare =>
           ItemSetsOf(ret) =
               ItemSetsOf(prepare_transactions(NewPatternMiner, Ordered(data),
                                               call.min_transactions_per_user).ret)
    /\ AfterFind =>
           PairsOf(ret) =
               PairsOf(find_frequent_itemsets(NewPatternMiner, basket_of(Ordered(data)),
                                              call.min_support, call.method).ret)
    /\ AfterGenerate =>
           ret = generate_association_rules(NewPatternMiner, Ordered(data), call.min_support,
                                            call.min_confidence, call.min_lift, "apriori").ret

\* rules mined from events that arrive with the users interleaved and the
\* titles of a user out of order
C20_Witness ==
    /\ AfterGenerate
    /\ Len(ret.rows) > 0
    /\ data # Ordered(data)
    /\ \E i \in 1..Len(data.rows) - 2 :
           /\ data.rows[i].user_id = data.rows[i + 2].user_id
           /\ data.rows[i].user_id # data.rows[i + 1].user_id
           /\ data.rows[i].title > data.rows[i + 2].title

---------------------------------------------------------------------------
(* C12 *)

\* C12: the rule list generate_association_rules_cached returns for the
\* dataset and thresholds of the calling session equals the result of a
\* fresh mining run on that dataset with those thresholds.
C12_CachedResultIsFresh ==
    call.op = "generate_association_rules_cached" =>
        ret = generate_association_rules(NewPatternMiner, session_state[call.session].merged_data,
                                         call.min_support, call.min_confidence,
                                         call.min_lift, "apriori").ret

---------------------------------------------------------------------------
(* C18 *)

\* C18: when the returned rule list holds both directions A -> C and C -> A
\* of a split, the two rules report equal lift and equal support and carry
\* the same strength label; and of two directions that both reach
\* min_confidence either both pass the min_lift filter or neither does.
C18_BothDirectionsAlike ==
    call.op = "association_rules_float64" =>
        /\ \A i, j \in 1..Len(ret.rows) :
               (/\ ret.rows[i].antecedents = ret.rows[j].consequents
                /\ ret.rows[i].consequents = ret.rows[j].antecedents)
                   => /\ ret.rows[i].lift = ret.rows[j].lift
                      /\ ret.rows[i].support = ret.rows[j].support
                      /\ ret.rows[i].rule_strength = ret.rows[j].rule_strength
        /\ (\A i \in 1..2 :
                float64_ge(float64_both_rules(data)[i].confidence,
                           float64_literal(call.min_confidence[1], call.min_confidence[2])))
               => Len(ret.rows) # 1

---------------------------------------------------------------------------
(* C21 *)

\* C21: for the five transactions {A,B}, {A,B,C}, {A,B}, {B,C}, {A,C} and
\* min_support = 0.4 the Frequent Itemset Collection holds {A,B} with support
\* 3/5, {B,C} with support 2/5 and {A,C} with support 2/5; with
\* min_confidence = 0.5 and min_lift = 1.0 the rule A -> B has confidence
\* 0.75 and lift 0.9375 and is not in the returned rule list.
C21_EndToEndScenario ==
    /\ (AfterFind /\ call.min_support = <<2, 5>>) =>
           {<<{1, 2}, <<3, 5>>>>, <<{2, 3}, <<2, 5>>>>, <<{1, 3}, <<2, 5>>>>} \subseteq PairsOf(ret)
    /\ (AfterGenerate /\ call.min_support = <<2, 5>>) =>
           /\ {<<{1, 2}, <<3, 5>>>>, <<{2, 3}, <<2, 5>>>>, <<{1, 3}, <<2, 5>>>>}
                  \subseteq PairsOf(miner.frequent_itemsets)
           /\ rule_of(miner.frequent_itemsets.rows, {1, 2}, {1}).confidence = <<3, 4>>
           /\ rule_of(miner.frequent_itemsets.rows, {1, 2}, {1}).lift = <<15, 16>>
           /\ (call.min_confidence = <<1, 2>> /\ call.min_lift = <<1, 1>>)
                  => ~HasRule(ret, {1}, {2})

\* the scenario was mined with its three thresholds
C21_Witness ==
    /\ AfterGenerate
    /\ call.min_support = <<2, 5>>
    /\ call.min_confidence = <<1, 2>>
    /\ call.min_lift = <<1, 1>>
    /\ Cardinality(PairsOf(miner.frequent_itemsets)) = 6
    /\ ~HasRule(ret, {1}, {2})

---------------------------------------------------------------------------
(* C22 *)

\* C22: for the same basket matrix and the same min_support,
\* find_frequent_itemsets returns the same set of (itemset, support) pairs
\* with method='apriori' and with method='fpgrowth'.
C22_SameItemsetsEitherAlgorithm ==
    call.op = "find_frequent_itemsets_float64" =>
        PairsOf(ret) =
            PairsOf(find_frequent_itemsets_float64(
                        data, float64_literal(call.min_support[1], call.min_support[2]),
                        IF call.method = "apriori" THEN "fpgrowth" ELSE "apriori"))

---------------------------------------------------------------------------
(* C23 *)

\* C23: the graph create_network_visualization builds has as nodes exactly
\* the items of the antecedents and consequents of the rendered rules (the
\* first max_rules rules of the list) and a directed edge (a, c) exactly when
\* a rendered rule has a in its antecedent and c in its consequent; the rules
\* beyond the cap add no node and no edge.
C23_GraphOfRenderedRules ==
    (AfterNetwork /\ ret # None) =>
        /\ ret.nodes = UNION {RenderedRules[i].antecedents \cup RenderedRules[i].consequents :
                                 i \in 1..Len(RenderedRules)}
        /\ DOMAIN ret.edges =
               {pair \in Titles \X Titles :
                   \E i \in 1..Len(RenderedRules) : Produces(RenderedRules[i], pair)}

\* a graph of a list longer than the cap: a rule beyond the cap holds an item
\* that is no node and produces a pair that is no edge
C23_Witness ==
    /\ AfterNetwork
    /\ ret # None
    /\ Len(call.rules_df.rows) > call.max_rules
    /\ \E i \in (call.max_rules + 1)..Len(call.rules_df.rows) :
           /\ \E t \in call.rules_df.rows[i].consequents : t \notin ret.nodes
           /\ \E pair \in Titles \X Titles :
                  Produces(call.rules_df.rows[i], pair) /\ pair \notin DOMAIN ret.edges

---------------------------------------------------------------------------
(* C24 *)

\* C24: given an empty rule list, create_network_visualization produces an
\* empty graph (no nodes, no edges), not an absent result.
C24_EmptyGraphOfNoRules ==
    (AfterNetwork /\ Len(call.rules_df.rows) = 0) =>
        /\ ret # None
        /\ ret.nodes = {}
        /\ DOMAIN ret.edges = {}

---------------------------------------------------------------------------
(* C25 *)

\* the rules of the list whose antecedent contains the query item
RulesAbout(rules, book_title) ==
    {i \in 1..Len(rules.rows) : book_title \in rules.rows[i].antecedents}

\* the full ranking: the query without a limit on the number of entries
FullRanking(book_title, rules) ==
    get_book_recommendations(book_title, rules, Len(rules.rows) * Cardinality(Titles)).items

\* C25: get_book_recommendations returns at most top_n entries, the first
\* top_n of the full ranking; every returned item is a consequent item of a
\* rule whose antecedent contains the query item and is not the query item;
\* the result is the empty list when the rule list is empty or absent or no
\* rule has the query item in its antecedent.
C25_TopOfRanking ==
    /\ \A book_title \in Titles, top_n \in TopNs :
           get_book_recommendations(book_title, None, top_n) = PyList(<<>>)
    /\ AfterRecommend =>
           /\ ret.type = "list"
           /\ Len(ret.items) <= call.top_n
           /\ ret.items = Take(FullRanking(call.book_title, call.rules_df), call.top_n)
           /\ \A k \in 1..Len(ret.items) :
                  /\ ret.items[k].recommended_book # call.book_title
                  /\ \E i \in RulesAbout(call.rules_df, call.book_title) :
                         ret.items[k].recommended_book \in call.rules_df.rows[i].consequents
           /\ RulesAbout(call.rules_df, call.book_title) = {} => ret.items = <<>>

\* a query whose full ranking is longer than top_n
C25_Witness ==
    /\ AfterRecommend
    /\ Len(ret.items) = call.top_n
    /\ Len(FullRanking(call.book_title, call.rules_df)) > call.top_n
    /\ RulesAbout(call.rules_df, call.book_title) # {}
    /\ \E i \in 1..Len(call.rules_df.rows) : i \notin RulesAbout(call.rules_df, call.book_title)

---------------------------------------------------------------------------
(* C26 *)

\* C26: every event merge_data hands to the Transaction Builder has a
\* non-null user_id, a non-null title and a non-null action_type, and no
\* record whose title is missing enters a transaction.
C26_EventsComplete ==
    /\ call.op = "merge_data" =>
           \A i \in 1..Len(ret.rows) :
               /\ ret.rows[i].user_id # NaN
               /\ ret.rows[i].title # NaN
               /\ ret.rows[i].action_type # NoAction
    /\ (AfterPrepare /\ ret # None) =>
           \A i \in 1..Len(ret.items) : \A j \in 1..Len(ret.items[i]) : ret.items[i][j] # NaN

---------------------------------------------------------------------------
(* C27 *)

AfterTable == call.op = "display_association_rules"

\* the rule behind row i of the table
RuleOfRow(i) == call.rules_df.rows[ret.rows[i].index]

\* C27: the rule list generate_association_rules returns is in non-increasing
\* order of lift, and the rows of the table display_association_rules builds
\* from it are the rules ordered by descending lift, rules of equal lift by
\* descending confidence.
C27_OrderedByLiftThenConfidence ==
    /\ AfterGenerate =>
           \A i, j \in 1..Len(ret.rows) :
               i < j => Geq(ret.rows[i].lift, ret.rows[j].lift)
    /\ AfterTable =>
           /\ {ret.rows[i].index : i \in 1..Len(ret.rows)} = 1..Len(call.rules_df.rows)
           /\ Len(ret.rows) = Len(call.rules_df.rows)
           /\ \A i, j \in 1..Len(ret.rows) :
                  i < j => \/ Gt(RuleOfRow(i).lift, RuleOfRow(j).lift)
                           \/ /\ RuleOfRow(i).lift = RuleOfRow(j).lift
                              /\ Geq(RuleOfRow(i).confidence, RuleOfRow(j).confidence)

\* a table of rules of different lifts in which two rules of equal lift
\* changed places because of their confidence
C27_Witness ==
    /\ AfterTable
    /\ \E i, j \in 1..Len(ret.rows) : Gt(RuleOfRow(i).lift, RuleOfRow(j).lift)
    /\ \E i, j \in 1..Len(ret.rows) :
           /\ i < j
           /\ ret.rows[i].index > ret.rows[j].index
           /\ RuleOfRow(i).lift = RuleOfRow(j).lift
           /\ Gt(RuleOfRow(i).confidence, RuleOfRow(j).confidence)

---------------------------------------------------------------------------
(* C28 *)

AfterBookSearch == call.op = "display_book_search"

\* C28: in the Book Search tab, whenever the rule-based lookup for the
\* selected book yields no recommendation, be it that no rule has the book
\* in its antecedent or that no rule at all was found, the tab computes the
\* fallback list of the other titles borrowed by the users who borrowed the
\* selected book.
C28_FallbackWhenNoRecommendation ==
    (AfterBookSearch /\ ret.recommendations = None) =>
        /\ ret.co_borrowed # None
        /\ ret.co_borrowed = co_borrowed(data, call.selected_book)

---------------------------------------------------------------------------
(* C29 *)

\* a miner that holds the rule list rules_df and nothing else; an empty list
\* is not held
MinerHolding(rules_df) ==
    [NewPatternMiner EXCEPT
        !.association_rules = IF Len(rules_df.rows) = 0 THEN None ELSE rules_df]

\* C29: after any sequence of generate_association_rules calls on one
\* PatternMiner, get_rules_summary and analyze_book_relationships report on
\* exactly the rule list the latest call returned, nothing when it returned
\* an empty list; a call that ends empty leaves no rules of an earlier
\* dataset or of earlier thresholds in the miner, and the stored rules are
\* rules of the stored frequent itemsets.
C29_StateOfLatestCall ==
    /\ call.op = "get_rules_summary" =>
           ret = get_rules_summary(MinerHolding(call.rules_df))
    /\ call.op = "analyze_book_relationships" =>
           ret = analyze_book_relationships(MinerHolding(call.rules_df), data, call.book_title)
    /\ AfterGenerate =>
           /\ miner.association_rules = MinerHolding(ret).association_rules
           /\ miner.association_rules # None =>
                  \A i \in 1..Len(miner.association_rules.rows) :
                      <<miner.association_rules.rows[i].antecedents
                            \cup miner.association_rules.rows[i].consequents,
                        miner.association_rules.rows[i].support>>
                          \in PairsOf(miner.frequent_itemsets)

---------------------------------------------------------------------------
(* C30 *)

\* the number of stored rules that carry the label
Labelled(label) ==
    Cardinality({i \in 1..Len(miner.association_rules.rows) :
                    miner.association_rules.rows[i].rule_strength = label})

\* C30: the strength counts of get_rules_summary agree with the labels of the
\* stored rules: strong_rules, moderate_rules and weak_rules are the numbers
\* of stored rules labelled Strong, Moderate and Weak, and the three counts
\* sum to total_rules.
C30_CountsAgreeWithLabels ==
    (call.op = "get_rules_summary" /\ ret # None) =>
        /\ ret.strong_rules = Labelled("Strong")
        /\ ret.moderate_rules = Labelled("Moderate")
        /\ ret.weak_rules = Labelled("Weak")
        /\ ret.strong_rules + ret.moderate_rules + ret.weak_rules = ret.total_rules

=============================================================================
